---- MODULE Spec2Model ----
(***************************************************************************)
(* A model of qmlutil: the CSS3.0 -> QuakeML conversion library.           *)
(*                                                                         *)
(* Python values are modelled as follows.                                  *)
(*   - str        : a TLA+ string ("smi:local/foo")                        *)
(*   - int/float  : an integer                                             *)
(*   - None       : an optional value is a set, None == {} and a present   *)
(*                  value v is {v}                                         *)
(*   - dict       : a function from string keys to values; db.get(k) of a  *)
(*                  missing key is None                                    *)
(*   - list       : a sequence                                             *)
(*   - a call     : [exc |-> "", val |-> v] when it returns v, and         *)
(*                  [exc |-> "<Exception>", val |-> None] when it raises   *)
(*   - uuid.uuid4 : a nondeterministic choice in UUID                      *)
(***************************************************************************)
EXTENDS Integers, Sequences, FiniteSets, TLC

VARIABLES
    rid_factory,        \* ResourceURIGenerator: [schema, authority_id]
    agency,             \* CSSToQMLConverter.agency
    automatic_authors,  \* CSSToQMLConverter.automatic_authors
    etype_map,          \* CSSToQMLConverter.etype_map
    utc_factory,        \* CSSToQMLConverter.utc_factory: None or a function name
    dbptr,              \* DatabaseConverter.dbptr: the tables of the database
    queries,            \* the commands the last call gave dbptr.process
    prefmags,           \* Db2Quakeml._prefmags
    class_etype_map,    \* the class attribute CSSToQMLConverter.etype_map
    counter_id,         \* Counter._id
    history,            \* the calls made so far, oldest first
    op,                 \* the operation called last
    arg,                \* its arguments
    res,                \* its outcome
    prev                \* the call before it: [op, arg, res]

vars == <<rid_factory, agency, automatic_authors, etype_map, utc_factory, dbptr, queries,
          prefmags, class_etype_map, counter_id, history, op, arg, res, prev>>

-----------------------------------------------------------------------------
(* Python values *)

None == {}
Some(v) == {v}
The(o) == CHOOSE v \in o : TRUE

\* dict.get(key): None for a missing key
Get(d, k) == IF k \in DOMAIN d THEN d[k] ELSE None

\* truth value of an optional number / optional string
TruthyNum(o) == o # None /\ o # Some(0)
TruthyStr(o) == o # None /\ o # Some("")

Return(v) == [exc |-> "", val |-> v]
Raise(e) == [exc |-> e, val |-> None]

\* str(int)
DigitChar == <<"0", "1", "2", "3", "4", "5", "6", "7", "8", "9">>

RECURSIVE NatStr(_)
NatStr(n) == IF n < 10 THEN DigitChar[n + 1]
             ELSE NatStr(n \div 10) \o DigitChar[(n % 10) + 1]

IntStr(n) == IF n < 0 THEN "-" \o NatStr(-n) ELSE NatStr(n)

\* "{0:08d}".format(n)
RECURSIVE ZeroPad(_, _)
ZeroPad(s, width) == IF Len(s) >= width THEN s ELSE ZeroPad("0" \o s, width)

Format08d(n) == IF n < 0 THEN "-" \o ZeroPad(NatStr(-n), 7)
                ELSE ZeroPad(NatStr(n), 8)

\* str.lower()
LowerOf == [A |-> "a", B |-> "b", C |-> "c", D |-> "d", E |-> "e", F |-> "f",
            G |-> "g", H |-> "h", I |-> "i", J |-> "j", K |-> "k", L |-> "l",
            M |-> "m", N |-> "n", O |-> "o", P |-> "p", Q |-> "q", R |-> "r",
            S |-> "s", T |-> "t", U |-> "u", V |-> "v", W |-> "w", X |-> "x",
            Y |-> "y", Z |-> "z"]

RECURSIVE Lower(_)
Lower(s) == IF s = "" THEN ""
            ELSE LET c == Head(s)
                 IN (IF c \in DOMAIN LowerOf THEN LowerOf[c] ELSE c) \o Lower(Tail(s))

\* sub in s
Contains(s, sub) ==
    \E i \in 1..(Len(s) + 1) :
        i + Len(sub) - 1 <= Len(s) /\ SubSeq(s, i, i + Len(sub) - 1) = sub

\* s.startswith(p)
StartsWith(s, p) == Len(p) <= Len(s) /\ SubSeq(s, 1, Len(p)) = p

\* uuid.uuid4() draws one of these
UUID == {"uuid-1", "uuid-2"}

-----------------------------------------------------------------------------
(* qmlutil.core *)

\* variant of ResourceURI: the schema and authority_id of the call are ignored
ResourceURI_NoOverride(self, resource_id, local_id, authority_id, schema, u) ==
    LET rid_ == IF ~TruthyStr(resource_id) THEN u ELSE The(resource_id)
        rid == self.schema \o ":" \o self.authority_id \o "/" \o rid_
    IN IF TruthyStr(local_id) THEN rid \o "#" \o The(local_id) ELSE rid

\* ResourceURIGenerator.__call__; u is what uuid.uuid4() returns if called
ResourceURI(self, resource_id, local_id, authority_id, schema, u) ==
    LET rid_ == IF ~TruthyStr(resource_id) THEN u ELSE The(resource_id)
        schema_ == IF TruthyStr(schema) THEN The(schema) ELSE self.schema
        auth_id == IF TruthyStr(authority_id) THEN The(authority_id)
                   ELSE self.authority_id
        rid == schema_ \o ":" \o auth_id \o "/" \o rid_
    IN IF TruthyStr(local_id) THEN rid \o "#" \o The(local_id) ELSE rid

\* m.get('type', '') of a magnitude dict
MagType(m) == IF "type" \in DOMAIN m THEN m["type"] ELSE Some("")

\* variant of TypesDict: the first magnitude of a type is kept
RECURSIVE TypesDict_First(_)
TypesDict_First(mags) ==
    IF mags = <<>> THEN <<>>
    ELSE LET m == mags[1]
         IN (Lower(The(IF "type" \in DOMAIN m THEN m["type"] ELSE Some(""))) :> Some(m["@publicID"]))
                @@ TypesDict_First(Tail(mags))

\* dict([(m.get('type', '').lower(), m['@publicID']) for m in mags]):
\* a later magnitude of a type replaces an earlier one
RECURSIVE TypesDict(_)
TypesDict(mags) ==
    IF mags = <<>> THEN <<>>
    ELSE LET m == mags[Len(mags)]
         IN (Lower(The(MagType(m))) :> Some(m["@publicID"]))
                @@ TypesDict(SubSeq(mags, 1, Len(mags) - 1))

\* the loop over prefmaglist
RECURSIVE WalkPrefs(_, _)
WalkPrefs(types, prefmaglist) ==
    IF prefmaglist = <<>> THEN None
    ELSE LET pid == Get(types, Lower(Head(prefmaglist)))
         IN IF pid # None THEN pid ELSE WalkPrefs(types, Tail(prefmaglist))

\* find_preferred_mag(mags, prefmaglist)
FindPreferredMag(mags, prefmaglist) ==
    IF \E i \in 1..Len(mags) : MagType(mags[i]) = None
    THEN Raise("AttributeError")
    ELSE Return(WalkPrefs(TypesDict(mags), prefmaglist))

\* anss_params(agency_id, evid)
AnssParams(agency_id, evid) ==
    LET agid == Lower(agency_id)
    IN ("@catalog:eventid" :> Format08d(evid))
       @@ ("@catalog:dataid" :> (agid \o Format08d(evid)))
       @@ ("@catalog:eventsource" :> agid)
       @@ ("@catalog:datasource" :> agid)

\* the civil date of the day z days after 1970-01-01, the date of
\* datetime.utcfromtimestamp: from the month index mp (0 is March) and the
\* day doy of the year that starts in March
CivilOfMonth(year, doy, mp) ==
    [year |-> year + (IF mp < 10 THEN 0 ELSE 1),
     month |-> IF mp < 10 THEN mp + 3 ELSE mp - 9,
     day |-> doy - (153 * mp + 2) \div 5 + 1]

CivilOfDayOfYear(year, doy) == CivilOfMonth(year, doy, (5 * doy + 2) \div 153)

\* from the era of 400 years, the day doe of the era and the year yoe of it
CivilOfYearOfEra(era, doe, yoe) ==
    CivilOfDayOfYear(yoe + era * 400,
                     doe - (365 * yoe + yoe \div 4 - yoe \div 100))

CivilOfDayOfEra(era, doe) ==
    CivilOfYearOfEra(era, doe,
        (doe - doe \div 1460 + doe \div 36524 - doe \div 146096) \div 365)

CivilFromDays(z) ==
    CivilOfDayOfEra((z + 719468) \div 146097, (z + 719468) % 146097)

\* _dt(timestamp): datetime.utcfromtimestamp(timestamp), a datetime, or None
\* when it raises (timestamp None)
Dt(timestamp) == IF timestamp = None THEN None
                 ELSE Some([datetime |-> The(timestamp)])

\* "%02d" of a field of a date or of a time
TwoDigits(n) == ZeroPad(NatStr(n), 2)

\* strftime('%Y-%m-%dT%H:%M:%S.%fZ') of the date and the second of the day
StrfTime(date, secs) ==
    ZeroPad(NatStr(date.year), 4) \o "-" \o TwoDigits(date.month) \o "-"
    \o TwoDigits(date.day) \o "T" \o TwoDigits(secs \div 3600) \o ":"
    \o TwoDigits((secs % 3600) \div 60) \o ":" \o TwoDigits(secs % 60)
    \o ".000000Z"

\* rfc3339(dt): dt.strftime(RFC3339) of the datetime of a whole number of
\* seconds
rfc3339(dt) ==
    StrfTime(CivilFromDays(dt.datetime \div 86400), dt.datetime % 86400)

\* timestamp2isostr(timestamp): rfc3339(_dt(timestamp)), or None when that
\* raises: _dt gave None, or strftime refuses a year before 1900
timestamp2isostr(timestamp) ==
    IF Dt(timestamp) = None THEN None
    ELSE IF CivilFromDays(The(timestamp) \div 86400).year < 1900 THEN None
    ELSE Some(rfc3339(The(Dt(timestamp))))

-----------------------------------------------------------------------------
(* qmlutil.css.css2qml: helpers *)

\* a or b, for optional numbers and for optional strings
OrNum(a, b) == IF TruthyNum(a) THEN a ELSE b
OrStr(a, b) == IF TruthyStr(a) THEN a ELSE b

\* "{0}".format(x) of an optional int / an optional str: None prints as "None"
FmtInt(o) == IF o = None THEN "None" ELSE IntStr(The(o))
FmtStr(o) == IF o = None THEN "None" ELSE The(o)

\* "{0}".format(db.get(key) or uuid.uuid4()) for an integer key
KeyOrUuid(o, u) == IF TruthyNum(o) THEN IntStr(The(o)) ELSE u

\* _str(item)
Str(item) == IF item # None THEN The(item) ELSE ""

\* _quan([('value', v), ('uncertainty', u)])
Quan(v, u) == IF v = None THEN None
              ELSE Some([value |-> v, uncertainty |-> u])

\* _quan(value=v)
QuanValue(v) == IF v = None THEN None ELSE Some([value |-> v])

\* Dict(value=v)
DictValue(v) == Some([value |-> v])

\* _km2m(dist)
Km2m(dist) == IF dist # None THEN Some(The(dist) * 1000) ELSE None

\* CSSToQMLConverter._utc(timestamp): _dt(timestamp) when utc_factory is None,
\* else utc_factory(timestamp), the only factory being timestamp2isostr
Utc(self, timestamp) == IF self.utc_factory = None THEN Dt(timestamp)
                        ELSE timestamp2isostr(timestamp)

\* CSSToQMLConverter._uri(obj, local_id, authority_id, schema) with obj a str
Uri(self, obj, local_id, authority_id, schema) ==
    ResourceURI(self.rid_factory, Some(obj), local_id, authority_id, schema, "")

\* CSSToQMLConverter.get_event_status(posted_author)
GetEventStatus(self, posted_author) ==
    IF \E i \in 1..Len(self.automatic_authors) :
            \/ ~TruthyStr(posted_author)
            \/ Contains(The(posted_author), self.automatic_authors[i])
    THEN <<"automatic", "preliminary">>
    ELSE <<"manual", "reviewed">>

\* ETYPE_MAP: the default CSS3.0 etypes to QML event types
ETYPE_MAP ==
    ("qb" :> "quarry blast") @@ ("eq" :> "earthquake") @@ ("me" :> "meteorite")
    @@ ("ex" :> "explosion") @@ ("o" :> "other event") @@ ("l" :> "earthquake")
    @@ ("r" :> "earthquake") @@ ("t" :> "earthquake") @@ ("f" :> "earthquake")

\* variant of UpdatedEtypeMap in which the defaults win over the keyword
UpdatedEtypeMap_DefaultsWin(kwarg) == ETYPE_MAP @@ kwarg

\* CSSToQMLConverter.__init__(etype_map=kwarg): the class map updated with
\* the keyword's entries
UpdatedEtypeMap(kwarg) == kwarg @@ ETYPE_MAP

\* CSSToQMLConverter.get_event_type(etype)
GetEventType(self, etype) ==
    IF etype \in DOMAIN self.etype_map THEN self.etype_map[etype]
    ELSE "not reported"

\* CSSToQMLConverter.origin_event_type(origin)
OriginEventType(self, origin) ==
    IF "css:etype" \in DOMAIN origin THEN GetEventType(self, origin["css:etype"])
    ELSE "not reported"

-----------------------------------------------------------------------------
(* qmlutil.css.css2qml: CSSToQMLConverter.map_event *)

\* variant of MapEvent: the agency is not lower-cased in the ANSS attributes
MapEvent_NoLower(self, db, anss) ==
    LET evid == Get(db, "evid")
        event == ("@publicID" :> Uri(self, "event/" \o FmtInt(evid), None, None, None))
                 @@ ("type" :> "not reported")
    IN IF anss /\ evid # None
       THEN Return(event
                @@ ("@catalog:eventid" :> Format08d(The(evid)))
                @@ ("@catalog:dataid" :> (self.agency \o Format08d(The(evid))))
                @@ ("@catalog:eventsource" :> self.agency)
                @@ ("@catalog:datasource" :> self.agency))
       ELSE Return(event)

MapEvent(self, db, anss) ==
    LET evid == Get(db, "evid")
        lddate == Get(db, "lddate")
        prefor == OrNum(Get(db, "prefor"), Get(db, "orid"))
        eventID_rid == "event/" \o FmtInt(evid)
        event0 == ("@publicID" :> Uri(self, eventID_rid, None, None, None))
                  @@ ("type" :> "not reported")
                  @@ ("creationInfo" :> [creationTime |-> Utc(self, lddate),
                                         agencyID |-> self.agency,
                                         version |-> FmtInt(evid)])
        event == IF TruthyNum(prefor)
                 THEN event0 @@ ("preferredOriginID" :>
                        Uri(self, "origin/" \o IntStr(The(prefor)), None, None, None))
                 ELSE event0
        agid == Lower(self.agency)
    IN IF ~anss THEN Return(event)
       ELSE IF evid = None THEN Raise("ValueError")   \* "{0:08d}".format(None)
       ELSE Return(event
                @@ ("@catalog:eventid" :> Format08d(The(evid)))
                @@ ("@catalog:dataid" :> (agid \o Format08d(The(evid))))
                @@ ("@catalog:eventsource" :> agid)
                @@ ("@catalog:datasource" :> agid))

-----------------------------------------------------------------------------
(* qmlutil.css.css2qml: the origin and magnitude mappers *)

\* math.cos and math.sin of math.radians(angle), for the multiples of 90
\* degrees, which are the angles of the model
CosDeg(angle) == <<1, 0, -1, 0>>[((angle % 360) \div 90) + 1]
SinDeg(angle) == <<0, 1, 0, -1>>[((angle % 360) \div 90) + 1]

\* math.sqrt, on the squares
RECURSIVE SqrtIter(_, _)
SqrtIter(x, r) == LET r2 == (r + x \div r) \div 2
                  IN IF r2 >= r THEN r ELSE SqrtIter(x, r2)
Sqrt(x) == IF x = 0 THEN 0 ELSE SqrtIter(x, x)

\* _eval_ellipse(a, b, angle)
EvalEllipse(a, b, angle) ==
    (a * b) \div Sqrt((b * CosDeg(angle)) * (b * CosDeg(angle))
                      + (a * SinDeg(angle)) * (a * SinDeg(angle)))

\* _m2deg_lat(dist): dist / 110600., kept as a fraction
MetersPerDegLat == 110600
M2DegLat(dist) == [num |-> dist, den |-> MetersPerDegLat]

\* _m2deg_lon(dist, lat): dist / (pi/180) / 6367449 / cos(radians(lat)),
\* kept as the term of its operands
EarthRadius == 6367449
M2DegLon(dist, lat) == [num |-> dist, radius |-> EarthRadius, lat |-> lat]

\* all([a, b, s])
EllipseGiven(a, b, s) == TruthyNum(a) /\ TruthyNum(b) /\ TruthyNum(s)

\* CSSToQMLConverter.map_origin2origin(db); u: the uuid4 draws
MapOrigin2Origin(self, db, u) ==
    LET css_etype == Str(Get(db, "etype"))
        posted_author == Str(Get(db, "auth"))
        ms == GetEventStatus(self, Some(posted_author))
        originID_rid == "origin/" \o KeyOrUuid(Get(db, "orid"), u[1])
        a == Km2m(Get(db, "smajax"))
        b == Km2m(Get(db, "sminax"))
        s == Get(db, "strike")
        given == EllipseGiven(a, b, s)
        n == EvalEllipse(The(a), The(b), The(s))
        e == EvalEllipse(The(a), The(b), The(s) - 90)
        lat_u == IF given THEN Some(M2DegLat(n)) ELSE None
        lon_u == IF given
                 THEN Some(M2DegLon(e, The(OrNum(Get(db, "lat"), Some(0)))))
                 ELSE None
        uncertainty0 == [preferredDescription |-> "uncertainty ellipse",
                         maxHorizontalUncertainty |-> a,
                         minHorizontalUncertainty |-> b,
                         azimuthMaxHorizontalUncertainty |-> s]
        uncertainty ==
            IF ~given THEN None
            ELSE IF Get(db, "conf") # None
            THEN Some(uncertainty0 @@
                      ("confidenceLevel" :> Some(The(Get(db, "conf")) * 100)))
            ELSE Some(uncertainty0)
    IN Return(
        ("@publicID" :> Uri(self, originID_rid, None, None, None))
        @@ ("latitude" :> Quan(Get(db, "lat"), lat_u))
        @@ ("longitude" :> Quan(Get(db, "lon"), lon_u))
        @@ ("depth" :> Quan(Km2m(Get(db, "depth")), Km2m(Get(db, "sdepth"))))
        @@ ("time" :> Quan(Utc(self, Get(db, "time")), Get(db, "stime")))
        @@ ("quality" :> [standardError |-> Get(db, "sdobs"),
                          usedPhaseCount |-> Get(db, "ndef"),
                          associatedPhaseCount |-> Get(db, "nass")])
        @@ ("originUncertainty" :> uncertainty)
        @@ ("evaluationMode" :> Some(ms[1]))
        @@ ("evaluationStatus" :> Some(ms[2]))
        @@ ("creationInfo" :> [creationTime |-> Utc(self, Get(db, "lddate")),
                               agencyID |-> self.agency,
                               author |-> Some(posted_author),
                               version |-> Get(db, "orid")])
        @@ ("arrival" :> <<>>)
        @@ ("css:etype" :> css_etype))

\* CSSToQMLConverter.map_stamag2stationmagnitude(db)
MapStamag2StationMagnitude(self, db, u) ==
    LET originID_rid == "origin/" \o KeyOrUuid(Get(db, "orid"), u[1])
        stamagID_rid == "stamag/" \o FmtStr(Get(db, "sta")) \o "-"
                        \o FmtStr(Get(db, "magtype")) \o "-"
                        \o KeyOrUuid(Get(db, "orid"), u[2]) \o "-"
                        \o KeyOrUuid(Get(db, "magid"), u[3])
    IN Return(
        ("@publicID" :> Uri(self, stamagID_rid, None, None, None))
        @@ ("mag" :> Some([value |-> Get(db, "magnitude"),
                           uncertainty |-> Get(db, "uncertainty")]))
        @@ ("type" :> Get(db, "magtype"))
        @@ ("creationInfo" :> [creationTime |-> Utc(self, Get(db, "lddate")),
                               agencyID |-> self.agency,
                               author |-> Get(db, "auth"),
                               version |-> Get(db, "magid")])
        @@ ("originID" :> Uri(self, originID_rid, None, None, None)))

\* CSSToQMLConverter.map_netmag2magnitude(db)
MapNetmag2Magnitude(self, db, u) ==
    LET posted_author == Str(Get(db, "auth"))
        ms == GetEventStatus(self, Some(posted_author))
        originID_rid == "origin/" \o KeyOrUuid(Get(db, "orid"), u[1])
        netmagID_rid == "netmag/" \o KeyOrUuid(Get(db, "magid"), u[2])
    IN Return(
        ("@publicID" :> Uri(self, netmagID_rid, None, None, None))
        @@ ("mag" :> Quan(Get(db, "magnitude"), Get(db, "uncertainty")))
        @@ ("type" :> Get(db, "magtype"))
        @@ ("stationCount" :> Get(db, "nsta"))
        @@ ("originID" :> Uri(self, originID_rid, None, None, None))
        @@ ("evaluationMode" :> Some(ms[1]))
        @@ ("evaluationStatus" :> Some(ms[2]))
        @@ ("creationInfo" :> [creationTime |-> Utc(self, Get(db, "lddate")),
                               agencyID |-> self.agency,
                               author |-> Some(posted_author),
                               version |-> Get(db, "magid")]))

\* the @publicID resource of map_origin2magnitude(db, mtype)
OrigmagRid(db, mtype, u) ==
    IF TruthyNum(Get(db, mtype \o "id"))
    THEN "netmag/" \o IntStr(The(Get(db, mtype \o "id")))
    ELSE "origin-" \o mtype \o "/" \o KeyOrUuid(Get(db, "orid"), u)

\* CSSToQMLConverter.map_origin2magnitude(db, mtype)
MapOrigin2Magnitude(self, db, mtype, u) ==
    LET author == Get(db, "auth")
        originID_rid == "origin/" \o KeyOrUuid(Get(db, "orid"), u[1])
        origmagID_rid == OrigmagRid(db, mtype, u[2])
        status == IF StartsWith(The(author), "orb") THEN "preliminary"
                  ELSE "reviewed"
    IN IF author = None THEN Raise("AttributeError")   \* None.startswith
       ELSE Return(
        ("@publicID" :> Uri(self, origmagID_rid, None, None, None))
        @@ ("mag" :> QuanValue(Get(db, mtype)))
        @@ ("type" :> Some(mtype))
        @@ ("originID" :> Uri(self, originID_rid, None, None, None))
        @@ ("evaluationStatus" :> Some(status))
        @@ ("creationInfo" :> [creationTime |-> Utc(self, Get(db, "lddate")),
                               agencyID |-> self.agency,
                               version |-> Get(db, "orid"),
                               author |-> author]))

-----------------------------------------------------------------------------
(* qmlutil.css.css2qml: the pick, arrival and focal mechanism mappers *)

\* str.upper()
UpperOf == [a |-> "A", b |-> "B", c |-> "C", d |-> "D", e |-> "E", f |-> "F",
            g |-> "G", h |-> "H", i |-> "I", j |-> "J", k |-> "K", l |-> "L",
            m |-> "M", n |-> "N", o |-> "O", p |-> "P", q |-> "Q", r |-> "R",
            s |-> "S", t |-> "T", u |-> "U", v |-> "V", w |-> "W", x |-> "X",
            y |-> "Y", z |-> "Z"]

RECURSIVE Upper(_)
Upper(s) == IF s = "" THEN ""
            ELSE LET c == Head(s)
                 IN (IF c \in DOMAIN UpperOf THEN UpperOf[c] ELSE c) \o Upper(Tail(s))

\* s[:2]
Prefix2(s) == IF Len(s) <= 2 THEN s ELSE SubSeq(s, 1, 2)

\* the onset of a pick, from the lower-cased qual
Onset(on_qual) ==
    IF Contains(on_qual, "i") THEN Some("impulsive")
    ELSE IF Contains(on_qual, "e") THEN Some("emergent")
    ELSE IF Contains(on_qual, "w") THEN Some("questionable")
    ELSE None

\* the polarity of a pick, from the lower-cased fm
Polarity(pol) ==
    IF Contains(pol, "c") \/ Contains(pol, "u") THEN Some("positive")
    ELSE IF Contains(pol, "d") \/ Contains(pol, "r") THEN Some("negative")
    ELSE IF Contains(pol, ".") THEN Some("undecidable")
    ELSE None

\* variant of PickMode that takes only the author 'orbassoc' itself
PickMode_Exact(auth) == IF Str(auth) # "orbassoc" THEN "manual"
                        ELSE "automatic"

\* the evaluation mode of a pick
PickMode(auth) == IF ~Contains(Str(auth), "orbassoc") THEN "manual"
                  ELSE "automatic"

\* the evaluation status of a pick
PickStatus(pick_mode) == IF pick_mode = "manual" THEN "reviewed"
                         ELSE "preliminary"

MICRO == 1000000

\* CSSToQMLConverter.map_arrival2pick(db)
MapArrival2Pick(self, db, u) ==
    LET def_net == Upper(Prefix2(self.agency))
        css_sta == Get(db, "sta")
        css_chan == Get(db, "chan")
        wfID_rid == "wfdisc/" \o FmtStr(css_sta) \o "-" \o FmtStr(css_chan)
                    \o "-" \o IntStr(The(Get(db, "time")) * MICRO)
        pickID_rid == "arrival/" \o KeyOrUuid(Get(db, "arid"), u[1])
        pick_mode == PickMode(Get(db, "auth"))
    IN IF Get(db, "time") = None THEN Raise("TypeError")   \* None * 10**6
       ELSE Return(
        ("@publicID" :> Uri(self, pickID_rid, None, None, None))
        @@ ("time" :> Quan(Utc(self, Get(db, "time")), Get(db, "deltim")))
        @@ ("waveformID" :>
                (("@stationCode" :> OrStr(Get(db, "fsta"), css_sta))
                 @@ ("@channelCode" :> OrStr(Get(db, "fchan"), css_chan))
                 @@ ("@networkCode" :> OrStr(Get(db, "snet"), Some(def_net)))
                 @@ ("@locationCode" :> OrStr(Get(db, "loc"), Some("")))
                 @@ ("#text" :> Uri(self, wfID_rid, None, None, Some("smi")))))
        @@ ("phaseHint" :> Get(db, "iphase"))
        @@ ("polarity" :> Polarity(Lower(Str(Get(db, "fm")))))
        @@ ("onset" :> Onset(Lower(Str(Get(db, "qual")))))
        @@ ("backazimuth" :> Quan(Get(db, "azimuth"), Get(db, "delaz")))
        @@ ("horizontalSlowness" :> Quan(Get(db, "slow"), Get(db, "delslo")))
        @@ ("creationInfo" :>
                [creationTime |-> Utc(self, OrNum(Get(db, "arrival.lddate"),
                                            Get(db, "lddate"))),
                 agencyID |-> self.agency,
                 author |-> Get(db, "auth"),
                 version |-> Get(db, "arid")])
        @@ ("evaluationMode" :> Some(pick_mode))
        @@ ("evaluationStatus" :> Some(PickStatus(pick_mode))))

\* TIMEDEF_WEIGHT.get(css_timedef)
TimedefWeight(css_timedef) ==
    IF css_timedef = "d" THEN Some(1)
    ELSE IF css_timedef = "n" THEN Some(0)
    ELSE None

\* variant of TimeWeight that takes a weight of 0 for a missing one
TimeWeight_Truthy(wgt, css_timedef) ==
    IF ~TruthyNum(wgt) THEN TimedefWeight(css_timedef) ELSE wgt

\* the timeWeight of an arrival
TimeWeight(wgt, css_timedef) ==
    IF wgt = None THEN TimedefWeight(css_timedef) ELSE wgt

\* CSSToQMLConverter.map_assoc2arrival(db)
MapAssoc2Arrival(self, db, u) ==
    LET css_timedef == Str(Get(db, "timedef"))
        pickID_rid == "arrival/" \o KeyOrUuid(Get(db, "arid"), u[1])
        vmodelID_rid == "vmodel/" \o (IF TruthyStr(Get(db, "vmodel"))
                                      THEN The(Get(db, "vmodel")) ELSE u[2])
        assocID_rid == "assoc/" \o KeyOrUuid(Get(db, "orid"), u[3]) \o "-"
                       \o KeyOrUuid(Get(db, "arid"), u[4])
    IN Return(
        ("@publicID" :> Uri(self, assocID_rid, None, None, None))
        @@ ("pickID" :> Uri(self, pickID_rid, None, None, None))
        @@ ("phase" :> Get(db, "phase"))
        @@ ("azimuth" :> Get(db, "esaz"))
        @@ ("distance" :> Get(db, "delta"))
        @@ ("timeResidual" :> Get(db, "timeres"))
        @@ ("timeWeight" :> TimeWeight(Get(db, "wgt"), css_timedef))
        @@ ("earthModelID" :> Uri(self, vmodelID_rid, None, Some("local"), Some("smi")))
        @@ ("creationInfo" :> [creationTime |-> Utc(self, Get(db, "lddate")),
                               agencyID |-> self.agency,
                               version |-> Get(db, "arid")])
        @@ ("css:timedef" :> css_timedef))

\* variant of MapAssocArrival2PickArrival: the arrival refers to itself
MapAssocArrival2PickArrival_Self(self, db, u) ==
    LET pick == MapArrival2Pick(self, db, <<u[1]>>)
        arrival == MapAssoc2Arrival(self, db, SubSeq(u, 2, 5)).val
    IN IF pick.exc # "" THEN pick
       ELSE Return(<<pick.val, ("pickID" :> arrival["@publicID"]) @@ arrival>>)

\* CSSToQMLConverter.map_assocarrival2pickarrival(db): (pick, arrival); the
\* pick takes the first draw, the arrival the next four
MapAssocArrival2PickArrival(self, db, u) ==
    LET pick == MapArrival2Pick(self, db, <<u[1]>>)
        arrival == MapAssoc2Arrival(self, db, SubSeq(u, 2, 5))
    IN IF pick.exc # "" THEN pick
       ELSE Return(<<pick.val, arrival.val>>)

\* the nodalPlanes dict of a focal mechanism
NodalPlanes(db) ==
    [nodalPlane1 |-> [strike |-> DictValue(Get(db, "str1")),
                      dip |-> DictValue(Get(db, "dip1")),
                      rake |-> DictValue(Get(db, "rake1"))],
     nodalPlane2 |-> [strike |-> DictValue(Get(db, "str2")),
                      dip |-> DictValue(Get(db, "dip2")),
                      rake |-> DictValue(Get(db, "rake2"))]]
    @@ ("@preferredPlane" :> 1)

\* the author the focal mechanism's status is taken from
FplaneStatusAuthor(db) == Str(Get(db, "auth"))

\* CSSToQMLConverter.map_fplane2focalmech(db)
MapFplane2Focalmech(self, db, u) ==
    LET originID_rid == "origin/" \o KeyOrUuid(Get(db, "orid"), u[1])
        fplaneID_rid == "fplane/" \o KeyOrUuid(Get(db, "mechid"), u[2])
        author_string == The(Get(db, "algorithm")) \o ":" \o The(Get(db, "auth"))
        ms == GetEventStatus(self, Some(FplaneStatusAuthor(db)))
        principal_axes ==
            [tAxis |-> [azimuth |-> DictValue(Get(db, "taxazm")),
                        plunge |-> DictValue(Get(db, "taxplg"))],
             pAxis |-> [azimuth |-> DictValue(Get(db, "paxazm")),
                        plunge |-> DictValue(Get(db, "paxplg"))]]
    IN IF Get(db, "algorithm") = None \/ Get(db, "auth") = None
       THEN Raise("TypeError")          \* ':'.join of a None
       ELSE Return(
        ("@publicID" :> Uri(self, fplaneID_rid, None, None, None))
        @@ ("triggeringOriginID" :> Uri(self, originID_rid, None, None, None))
        @@ ("nodalPlanes" :> NodalPlanes(db))
        @@ ("principalAxes" :> principal_axes)
        @@ ("creationInfo" :> [creationTime |-> Utc(self, Get(db, "lddate")),
                               agencyID |-> self.agency,
                               author |-> Some(author_string),
                               version |-> Get(db, "mtid")])
        @@ ("evaluationMode" :> Some(ms[1]))
        @@ ("evaluationStatus" :> Some(ms[2])))

\* the table of map_mt2focalmech from rstatus to an evaluation mode
MtMode(rstatus) ==
    IF rstatus = Some("automatic") THEN Some("automatic")
    ELSE IF rstatus = Some("manual") THEN Some("manual")
    ELSE IF rstatus = Some("reviewed") THEN Some("manual")
    ELSE None

\* the evaluationMode map_mt2focalmech gives the focal mechanism
MtEvaluationMode(db) == Get(db, "rstatus")

\* CSSToQMLConverter.map_mt2focalmech(db)
MapMt2Focalmech(self, db, u) ==
    LET originID_rid == "origin/" \o KeyOrUuid(Get(db, "orid"), u[1])
        mtID_rid == "mt/" \o KeyOrUuid(Get(db, "mtid"), u[2])
        mode == MtMode(Get(db, "rstatus"))
        status == Get(db, "estatus")
        moment_tensor ==
            ("@publicID" :> Uri(self, mtID_rid, Some("tensor"), None, None))
            @@ [derivedOriginID |-> Uri(self, originID_rid, None, None, None),
                scalarMoment |-> QuanValue(Get(db, "scm")),
                doubleCouple |-> Get(db, "pdc"),
                tensor |-> [Mrr |-> DictValue(Get(db, "tmrr")),
                            Mtt |-> DictValue(Get(db, "tmtt")),
                            Mpp |-> DictValue(Get(db, "tmpp")),
                            Mrt |-> DictValue(Get(db, "tmrt")),
                            Mrp |-> DictValue(Get(db, "tmrp")),
                            Mtp |-> DictValue(Get(db, "tmtp"))],
                creationInfo |-> [creationTime |-> Utc(self, db["lddate"]),
                                  agencyID |-> self.agency,
                                  author |-> Get(db, "auth"),
                                  version |-> Get(db, "mtid")]]
        principal_axes ==
            [tAxis |-> [azimuth |-> DictValue(Get(db, "taxazm")),
                        plunge |-> DictValue(Get(db, "taxplg")),
                        length |-> DictValue(Get(db, "taxlength"))],
             pAxis |-> [azimuth |-> DictValue(Get(db, "paxazm")),
                        plunge |-> DictValue(Get(db, "paxplg")),
                        length |-> DictValue(Get(db, "paxlength"))],
             nAxis |-> [azimuth |-> DictValue(Get(db, "naxazm")),
                        plunge |-> DictValue(Get(db, "naxplg")),
                        length |-> DictValue(Get(db, "naxlength"))]]
    IN IF "lddate" \notin DOMAIN db THEN Raise("KeyError")   \* db['lddate']
       ELSE Return(
        ("@publicID" :> Uri(self, mtID_rid, Some("focalmech"), None, None))
        @@ ("triggeringOriginID" :> Uri(self, originID_rid, None, None, None))
        @@ ("nodalPlanes" :> NodalPlanes(db))
        @@ ("principalAxes" :> principal_axes)
        @@ ("momentTensor" :> moment_tensor)
        @@ ("creationInfo" :> [creationTime |-> Utc(self, Get(db, "lddate")),
                               agencyID |-> self.agency,
                               author |-> Get(db, "auth"),
                               version |-> Get(db, "mtid")])
        @@ ("evaluationMode" :> MtEvaluationMode(db))
        @@ ("evaluationStatus" :> Get(db, "estatus")))

-----------------------------------------------------------------------------
(* qmlutil.css.css2qml: the collection converters *)

\* [f(x) for x in xs] where f returns or raises: the list, or the first raise
RECURSIVE Collect(_)
Collect(outcomes) ==
    IF outcomes = <<>> THEN Return(<<>>)
    ELSE IF Head(outcomes).exc # "" THEN Head(outcomes)
    ELSE LET rest == Collect(Tail(outcomes))
         IN IF rest.exc # "" THEN rest
            ELSE Return(<<Head(outcomes).val>> \o rest.val)

\* CSSToQMLConverter.convert_origins(records); u[i]: the uuid4 draws of the
\* mapper call on the i-th record
ConvertOrigins(self, records, u) ==
    Collect([i \in 1..Len(records) |-> MapOrigin2Origin(self, records[i], u[i])])

\* CSSToQMLConverter.convert_phases(records): map(list, zip(*pairs)) of the
\* (pick, arrival) pairs, [picks, arrivals], and [] for no record; u[i]: the
\* uuid4 draws of the mapper call on the i-th record
ConvertPhases(self, records, u) ==
    LET pick_arr_pairs == Collect([i \in 1..Len(records) |->
                            MapAssocArrival2PickArrival(self, records[i], u[i])])
    IN IF pick_arr_pairs.exc # "" THEN pick_arr_pairs
       ELSE IF records = <<>> THEN Return(<<>>)
       ELSE Return(<<[i \in 1..Len(records) |-> pick_arr_pairs.val[i][1]],
                     [i \in 1..Len(records) |-> pick_arr_pairs.val[i][2]]>>)

\* CSSToQMLConverter.convert_focalmechs(records, schema): the list, or None
\* for a schema that is neither "fplane" nor "mt"; u[i]: the uuid4 draws of
\* the mapper call on the i-th record
ConvertFocalmechs(self, records, schema, u) ==
    IF schema = "fplane"
    THEN Collect([i \in 1..Len(records) |-> MapFplane2Focalmech(self, records[i], u[i])])
    ELSE IF schema = "mt"
    THEN Collect([i \in 1..Len(records) |-> MapMt2Focalmech(self, records[i], u[i])])
    ELSE Return(None)

\* CSSToQMLConverter.map_moment2focalmech(db)
MapMoment2Focalmech(self, db) == Raise("NotImplementedError")

-----------------------------------------------------------------------------
(* qmlutil.aux.antelope: DatabaseConverter over a database of row tables *)

\* 'dbsubset orid==<orid>': the rows of the table with that orid, in table
\* order
RECURSIVE DbSubsetOrid(_, _)
DbSubsetOrid(rows, orid) ==
    IF rows = <<>> THEN <<>>
    ELSE (IF Get(Head(rows), "orid") = Some(orid) THEN <<Head(rows)>> ELSE <<>>)
         \o DbSubsetOrid(Tail(rows), orid)

\* the sequence rows without its i-th element
Without(rows, i) == SubSeq(rows, 1, i - 1) \o SubSeq(rows, i + 1, Len(rows))

\* 'dbsort -r lddate': the rows by decreasing lddate
RECURSIVE DbSortReverseLddate(_)
DbSortReverseLddate(rows) ==
    IF rows = <<>> THEN <<>>
    ELSE LET i == CHOOSE x \in 1..Len(rows) :
                    /\ \A y \in 1..Len(rows) :
                            The(rows[y].lddate) <= The(rows[x].lddate)
                    /\ \A y \in 1..(x - 1) :
                            The(rows[y].lddate) < The(rows[x].lddate)
         IN <<rows[i]>> \o DbSortReverseLddate(Without(rows, i))

\* the magnitude types held by the origin table, with a true value in row r
OriginMagTypes(r) == SelectSeq(<<"ml", "mb", "ms">>, LAMBDA t : TruthyNum(Get(r, t)))

\* 'dbsubset <key>==<value>': the rows of the table whose field key has that
\* value, in table order; a null value selects no row
DbSubset(rows, key, value) ==
    SelectSeq(rows, LAMBDA r : value # None /\ Get(r, key) = value)

\* 'dbsort lddate': the rows by increasing lddate
RECURSIVE DbSortLddate(_)
DbSortLddate(rows) ==
    IF rows = <<>> THEN <<>>
    ELSE LET i == CHOOSE x \in 1..Len(rows) :
                    /\ \A y \in 1..Len(rows) :
                            The(rows[x].lddate) <= The(rows[y].lddate)
                    /\ \A y \in 1..(x - 1) :
                            The(rows[x].lddate) < The(rows[y].lddate)
         IN <<rows[i]>> \o DbSortLddate(Without(rows, i))

\* 'dbsubset <key>=={0}'.format(value)
SubsetCmd(key, value) == "dbsubset " \o key \o "==" \o FmtInt(value)

\* an outcome with the commands given to dbptr.process on the way
Ran(outcome, cmds) == [queries |-> cmds] @@ outcome

\* the outcome of a call without its commands
Outcome(ran) == [k \in DOMAIN ran \ {"queries"} |-> ran[k]]

\* raise e(msg)
RaiseMsg(e, msg) == [exc |-> e, val |-> None, msg |-> msg]

\* first, and if it returned, then next(its value); the commands of both
Bind(first, next(_)) ==
    IF first.exc # "" THEN first
    ELSE LET n == next(first.val)
         IN [queries |-> first.queries \o n.queries] @@ n

\* DatabaseConverter._evid(orid)
GetEvid(db, orid) ==
    LET cmd == <<"dbopen origin", SubsetCmd("orid", orid), "dbsort lddate">>
        rows == DbSortLddate(DbSubset(db.origin, "orid", orid))
    IN Ran(Return(IF rows # <<>> THEN Get(rows[1], "evid") ELSE None), <<cmd>>)

\* the event query of get_event for an evid
EventOfEvid(self, db, evid, anss) ==
    LET cmd == <<"dbopen event", SubsetCmd("evid", evid)>>
        rows == DbSubset(db.event, "evid", evid)
        event == MapEvent(self, rows[1], anss)
    IN IF rows = <<>> THEN Ran(Return(None), <<cmd>>)
       ELSE IF event.exc # "" THEN Ran(event, <<cmd>>)
       ELSE Ran(Return(Some(event.val)), <<cmd>>)

\* DatabaseConverter.get_event(orid, evid, anss): Some(event), or None
GetEvent(self, db, orid, evid, anss) ==
    IF TruthyNum(orid) /\ ~TruthyNum(evid)
    THEN Bind(GetEvid(db, orid), LAMBDA e : EventOfEvid(self, db, e, anss))
    ELSE EventOfEvid(self, db, evid, anss)

\* DatabaseConverter.get_event_from_origin(orid, anss): Some(event), or None
GetEventFromOrigin(self, db, orid, anss) ==
    LET cmd == <<"dbopen origin", SubsetCmd("orid", orid)>>
        rows == DbSubset(db.origin, "orid", orid)
        event == MapEvent(self, rows[1], anss)
    IN IF rows = <<>> THEN Ran(Return(None), <<cmd>>)
       ELSE IF event.exc # "" THEN Ran(event, <<cmd>>)
       ELSE Ran(Return(Some(event.val)), <<cmd>>)

\* the null value the schema gives a field of the fplane table (CSS3.0: "-"
\* for a string, -1 for an id, -999.0 for an angle); that of lddate,
\* -9999999999.999, is stood for by an integer below every load date
FplaneNull(field) ==
    IF field \in {"auth", "algorithm"} THEN Some("-")
    ELSE IF field \in {"orid", "mechid", "mtid"} THEN Some(-1)
    ELSE IF field = "lddate" THEN Some(-999999999)
    ELSE Some(-999)

\* a row as Database.get_rows gives it with convert_null=False: a field that
\* is null holds the null value of the schema and not None
UnconvertedRow(row) ==
    [k \in DOMAIN row |-> IF row[k] = None THEN FplaneNull(k) ELSE row[k]]

\* DatabaseConverter.get_focalmechs(orid): the rows are read with
\* rowopts(convert_null=False)
GetFocalmechs(self, db, orid, u) ==
    LET cmd == <<"dbopen fplane", SubsetCmd("orid", orid), "dbsort -r lddate">>
        sorted == DbSortReverseLddate(DbSubset(db.fplane, "orid", orid))
        rows == [i \in 1..Len(sorted) |-> UnconvertedRow(sorted[i])]
    IN Ran(ConvertFocalmechs(self, rows, "fplane", u), <<cmd>>)

\* DatabaseConverter.get_mts(orid)
GetMts(self, db, orid, u) ==
    LET cmd == <<"dbopen mt", SubsetCmd("orid", orid), "dbsort -r lddate">>
        rows == DbSortReverseLddate(DbSubset(db.mt, "orid", orid))
    IN Ran(ConvertFocalmechs(self, rows, "mt", u), <<cmd>>)

\* variant of GetOrigins in which the evid is the first choice
GetOrigins_EvidFirst(self, db, orid, evid, u) ==
    LET key == IF evid # None THEN "evid" ELSE "orid"
        value == IF evid # None THEN evid ELSE orid
        cmd == <<"dbopen origin", "dbjoin -o origerr", SubsetCmd(key, value),
                 "dbsort -r lddate">>
        rows == DbSortReverseLddate(DbSubset(db.origin, key, value))
    IN IF orid = None /\ evid = None
       THEN Ran(RaiseMsg("ValueError", "Need to specify an ORID or EVID"), <<>>)
       ELSE Ran(ConvertOrigins(self, rows, u), <<cmd>>)

\* DatabaseConverter.get_origins(orid, evid); the origin table holds the rows
\* of origin outer-joined with origerr
GetOrigins(self, db, orid, evid, u) ==
    LET key == IF orid # None THEN "orid" ELSE "evid"
        value == IF orid # None THEN orid ELSE evid
        cmd == <<"dbopen origin", "dbjoin -o origerr", SubsetCmd(key, value),
                 "dbsort -r lddate">>
        rows == DbSortReverseLddate(DbSubset(db.origin, key, value))
    IN IF orid = None /\ evid = None
       THEN Ran(RaiseMsg("ValueError", "Need to specify an ORID or EVID"), <<>>)
       ELSE Ran(ConvertOrigins(self, rows, u), <<cmd>>)

\* DatabaseConverter.get_magnitudes(orid), converter self over database db;
\* u[i]: the uuid4 draws of the i-th mapper call
GetMagnitudes(self, db, orid, u) ==
    LET netmag_cmd == <<"dbopen netmag", SubsetCmd("orid", Some(orid)),
                        "dbsort -r lddate">>
        origin_cmd == <<"dbopen origin", SubsetCmd("orid", Some(orid))>>
        netmag_rows == DbSortReverseLddate(DbSubsetOrid(db.netmag, orid))
        origin_rows == DbSubsetOrid(db.origin, orid)
        r == origin_rows[1]
        types == OriginMagTypes(r)
    IN IF netmag_rows # <<>>
       THEN Ran(Collect([i \in 1..Len(netmag_rows) |->
                            MapNetmag2Magnitude(self, netmag_rows[i], u[i])]),
                <<netmag_cmd>>)
       ELSE IF origin_rows # <<>>
       THEN Ran(Collect([i \in 1..Len(types) |->
                            MapOrigin2Magnitude(self, r, types[i], u[i])]),
                <<netmag_cmd, origin_cmd>>)
       ELSE Ran(Return(<<>>), <<netmag_cmd, origin_cmd>>)

\* the part of s after the last sep, s itself when it holds no sep:
\* s.split(sep)[-1]
RECURSIVE LastPart(_, _)
LastPart(s, sep) ==
    IF s = "" THEN ""
    ELSE LET rest == LastPart(Tail(s), sep)
         IN IF Contains(Tail(s), sep) THEN rest
            ELSE IF SubSeq(s, 1, 1) = sep THEN Tail(s)
            ELSE s

\* qmlutil.css.extract_id(rid): the key of a resource identifier, its part
\* after the last "/"
ExtractId(rid) == LastPart(rid, "/")

\* DatabaseConverter.get_station_magnitudes(orid, evid, magid): the query is
\* run and its rows are read, then self.converter.convert_magnitudes is looked
\* up, an attribute CSSToQMLConverter does not have
GetStationMagnitudes(self, db, orid, evid, magid) ==
    LET key == IF TruthyNum(magid) THEN "magid"
               ELSE IF TruthyNum(orid) THEN "orid" ELSE "evid"
        value == IF TruthyNum(magid) THEN magid
                 ELSE IF TruthyNum(orid) THEN orid ELSE evid
        cmd == <<"dbopen stamag", SubsetCmd(key, value), "dbjoin -o arrival",
                 "dbjoin -o snetsta", "dbjoin -o schanloc sta chan">>
    IN IF ~TruthyNum(magid) /\ ~TruthyNum(orid) /\ ~TruthyNum(evid)
       THEN Ran(Raise("UnboundLocalError"), <<>>)     \* query is not set
       ELSE Ran(Raise("AttributeError"), <<cmd>>)

\* DatabaseConverter.get_phases(orid): the rows of assoc joined with arrival
GetPhases(self, db, orid, u) ==
    LET cmd == <<"dbopen assoc", SubsetCmd("orid", orid), "dbjoin arrival",
                 "dbjoin -o snetsta", "dbjoin -o schanloc sta chan">>
        rows == DbSubset(db.assoc, "orid", orid)
    IN Ran(ConvertPhases(self, rows, u), <<cmd>>)

\* get_magid(sid): the magid part of a station magnitude identifier
GetMagid(sid) == LastPart(ExtractId(sid), "-")

\* the contributions extract_origin gives the magnitude mag
Contributions(mag, smcontribs) ==
    SelectSeq(smcontribs, LAMBDA smc :
        ExtractId(mag["@publicID"]) = GetMagid(smc.stationMagnitudeID))

\* event[key] = value, on an event that may be None
SetItem(event, key, value) ==
    IF event = None THEN Ran(Raise("TypeError"), <<>>)
    ELSE Ran(Return(Some((key :> value) @@ The(event))), <<>>)

\* variant of ExtractOrigins without the test for an empty origin list
ExtractOrigins_Unchecked(self, db, orid, event, u) ==
    Bind(GetOrigins(self, db, Some(orid), None, u.origin), LAMBDA origins :
        IF Len(origins) < 1 THEN Ran(Raise("IndexError"), <<>>)
        ELSE Bind(SetItem(event, "type", OriginEventType(self, origins[1])),
                  LAMBDA e : SetItem(e, "origin", origins)))

\* extract_origin, 'if origin:'
ExtractOrigins(self, db, orid, event, u) ==
    Bind(GetOrigins(self, db, Some(orid), None, u.origin), LAMBDA origins :
        IF Len(origins) < 1
        THEN Ran(RaiseMsg("ValueError", "No origins for ORID: " \o IntStr(orid)), <<>>)
        ELSE Bind(SetItem(event, "type", OriginEventType(self, origins[1])),
                  LAMBDA e : SetItem(e, "origin", origins)))

\* extract_origin, 'if magnitude:'
ExtractMagnitudes(self, db, orid, event, u) ==
    Bind(GetMagnitudes(self, db, orid, u.magnitude), LAMBDA mags :
        SetItem(event, "magnitude", mags))

\* the quality of the arrivals, with circle the full circle in the unit of
\* the azimuths: a station is a pair of azimuth and distance, a used one has
\* an arrival of a positive timeWeight; the distances and the largest gap
\* between neighbouring azimuths, around the circle, are those of all
\* arrivals. No arrival, or an arrival without azimuth or distance, raises
QualityFromArrival(arrivals, circle) ==
    IF arrivals = <<>> THEN Raise("ValueError")
    ELSE IF \E i \in 1..Len(arrivals) :
                arrivals[i]["azimuth"] = None \/ arrivals[i]["distance"] = None
    THEN Raise("TypeError")
    ELSE LET Station(a) == <<The(a["azimuth"]), The(a["distance"])>>
             Used(a) == a["timeWeight"] # None /\ The(a["timeWeight"]) > 0
             assoc == {Station(arrivals[i]) : i \in 1..Len(arrivals)}
             used == {Station(arrivals[i]) :
                        i \in {j \in 1..Len(arrivals) : Used(arrivals[j])}}
             azimuths == {st[1] : st \in assoc}
             distances == {st[2] : st \in assoc}
             Least(S) == CHOOSE x \in S : \A y \in S : x <= y
             Greatest(S) == CHOOSE x \in S : \A y \in S : y <= x
             Gap(az) == IF \E b \in azimuths : b > az
                        THEN Least({b \in azimuths : b > az}) - az
                        ELSE circle - az + Least(azimuths)
         IN Return([associatedStationCount |-> Some(Cardinality(assoc)),
                    usedStationCount |-> Some(Cardinality(used)),
                    minimumDistance |-> Some(Least(distances)),
                    maximumDistance |-> Some(Greatest(distances)),
                    azimuthalGap |-> Some(Greatest({Gap(az) : az \in azimuths}))])

\* qml.get_quality_from_arrival(arrivals), as its test gives it; azimuths
\* are whole degrees
GetQualityFromArrival(arrivals) == QualityFromArrival(arrivals, 360)

\* o.get('quality', {}).update(qml.get_quality_from_arrival(o['arrival']))
\* under 'except StandardError: pass': the origin o afterwards
UpdateQuality(o) ==
    IF "arrival" \notin DOMAIN o THEN o
    ELSE LET quality == GetQualityFromArrival(o["arrival"])
         IN IF quality.exc # "" \/ "quality" \notin DOMAIN o THEN o
            ELSE [o EXCEPT !["quality"] = quality.val @@ @]

\* event['origin'][0]['arrival'] = _arrivals under 'except StandardError:
\* pass', then the update of the quality of every origin: the event afterwards
AttachArrivals(event, arrivals) ==
    LET origins == Get(event, "origin")
        attached == IF "origin" \notin DOMAIN event \/ Len(origins) < 1 THEN event
                    ELSE [event EXCEPT !["origin"][1] = ("arrival" :> arrivals) @@ @]
    IN IF "origin" \notin DOMAIN attached THEN attached
       ELSE [attached EXCEPT !["origin"] =
                [i \in 1..Len(attached["origin"]) |->
                    UpdateQuality(attached["origin"][i])]]

\* extract_origin, 'if pick:'
ExtractPicks(self, db, orid, event, origin, u) ==
    Bind(GetPhases(self, db, Some(orid), u.pick), LAMBDA picks_arrivals :
        IF origin /\ picks_arrivals # <<>>
        THEN Bind(SetItem(event, "pick", picks_arrivals[1]), LAMBDA e :
                Ran(Return(Some(AttachArrivals(The(e), picks_arrivals[2]))), <<>>))
        ELSE Ran(Return(event), <<>>))

\* extract_origin, 'if focalMechanism:'
ExtractFocalMechanisms(self, db, orid, event, u) ==
    Bind(GetMts(self, db, Some(orid), u.mt), LAMBDA mts :
        Bind(GetFocalmechs(self, db, Some(orid), u.fplane), LAMBDA fms :
            SetItem(event, "focalMechanism", mts \o fms)))

\* extract_origin, 'if stationMagnitude:'
ExtractStationMagnitudes(self, db, orid, event, magnitude) ==
    Bind(GetStationMagnitudes(self, db, Some(orid), None, None),
         LAMBDA mag_contribs :
        IF magnitude /\ mag_contribs # <<>>
        THEN LET mags == The(event)["magnitude"]
                 linked == [i \in 1..Len(mags) |->
                                ("stationMagnitudeContribution" :>
                                    Contributions(mags[i], mag_contribs[2]))
                                @@ mags[i]]
             IN Bind(SetItem(event, "stationMagnitude", mag_contribs[1]),
                     LAMBDA e : SetItem(e, "magnitude", linked))
        ELSE Ran(Return(event), <<>>))

\* DatabaseConverter.extract_origin(orid, origin, magnitude, pick,
\* focalMechanism, stationMagnitude, anss): Some(event), or None; f holds
\* the flags, u the uuid4 draws of the mapper calls of each query: u.origin[i]
\* those of the call on the i-th origin row, likewise u.magnitude, u.pick,
\* u.mt and u.fplane
ExtractOrigin(self, db, orid, f, u) ==
    LET Skip(e) == Ran(Return(e), <<>>)
        found == Bind(GetEvent(self, db, Some(orid), None, f.anss), LAMBDA e :
                    IF e = None THEN GetEventFromOrigin(self, db, Some(orid), f.anss)
                    ELSE Skip(e))
        with_origin == Bind(found, LAMBDA e :
                    IF f.origin THEN ExtractOrigins(self, db, orid, e, u)
                    ELSE Skip(e))
        with_magnitude == Bind(with_origin, LAMBDA e :
                    IF f.magnitude THEN ExtractMagnitudes(self, db, orid, e, u)
                    ELSE Skip(e))
        with_pick == Bind(with_magnitude, LAMBDA e :
                    IF f.pick THEN ExtractPicks(self, db, orid, e, f.origin, u)
                    ELSE Skip(e))
        with_focalmech == Bind(with_pick, LAMBDA e :
                    IF f.focalMechanism
                    THEN ExtractFocalMechanisms(self, db, orid, e, u)
                    ELSE Skip(e))
    IN Bind(with_focalmech, LAMBDA e :
            IF f.stationMagnitude
            THEN ExtractStationMagnitudes(self, db, orid, e, f.magnitude)
            ELSE Skip(e))

-----------------------------------------------------------------------------
(* qmlutil.aux.antelope: Db2Quakeml *)

\* str.split(sep) for a separator of one character
RECURSIVE Split(_, _)
Split(s, sep) ==
    IF \A i \in 1..Len(s) : SubSeq(s, i, i) # sep THEN <<s>>
    ELSE LET at == CHOOSE i \in 1..Len(s) :
                    /\ SubSeq(s, i, i) = sep
                    /\ \A j \in 1..(i - 1) : SubSeq(s, j, j) # sep
         IN <<SubSeq(s, 1, at - 1)>> \o Split(SubSeq(s, at + 1, Len(s)), sep)

\* the setter of Db2Quakeml.preferred_magtypes: _prefmags afterwards; is_str
\* is isinstance(mtypes, str)
PreferredMagtypesSetter(mtypes, is_str) ==
    IF is_str THEN Split(mtypes, ",") ELSE mtypes

\* mags[::-1]
Reversed(mags) == [i \in 1..Len(mags) |-> mags[Len(mags) + 1 - i]]

\* variant of SetPreferredIds that hands the magnitudes over as they are
SetPreferredIds_Unreversed(ev, preferred_magtypes) ==
    IF "origin" \notin DOMAIN ev \/ ev["origin"] = <<>> THEN ev
    ELSE LET e1 == ("preferredOriginID" :> ev["origin"][1]["@publicID"]) @@ ev
             found == IF "magnitude" \in DOMAIN ev
                      THEN FindPreferredMag(ev["magnitude"], preferred_magtypes)
                      ELSE Raise("KeyError")
             e2 == ("preferredMagnitudeID" :> found.val) @@ e1
         IN IF found.exc # "" THEN e1
            ELSE IF "focalMechanism" \in DOMAIN ev /\ ev["focalMechanism"] # <<>>
            THEN ("preferredFocalMechanismID" :>
                    ev["focalMechanism"][1]["@publicID"]) @@ e2
            ELSE e2

\* the first try block of Db2Quakeml.get_event on the event ev: the
\* assignments made up to the first exception, which is logged
SetPreferredIds(ev, preferred_magtypes) ==
    IF "origin" \notin DOMAIN ev \/ ev["origin"] = <<>> THEN ev
    ELSE LET e1 == ("preferredOriginID" :> ev["origin"][1]["@publicID"]) @@ ev
             found == IF "magnitude" \in DOMAIN ev
                      THEN FindPreferredMag(Reversed(ev["magnitude"]),
                                            preferred_magtypes)
                      ELSE Raise("KeyError")
             e2 == ("preferredMagnitudeID" :> found.val) @@ e1
         IN IF found.exc # "" THEN e1
            ELSE IF "focalMechanism" \in DOMAIN ev /\ ev["focalMechanism"] # <<>>
            THEN ("preferredFocalMechanismID" :>
                    ev["focalMechanism"][1]["@publicID"]) @@ e2
            ELSE e2

\* the exception of the first try block of Db2Quakeml.get_event, "" if none
SetPreferredIdsError(ev, preferred_magtypes) ==
    IF "origin" \notin DOMAIN ev THEN "KeyError"
    ELSE IF ev["origin"] = <<>> THEN "IndexError"
    ELSE IF "magnitude" \notin DOMAIN ev THEN "KeyError"
    ELSE FindPreferredMag(Reversed(ev["magnitude"]), preferred_magtypes).exc

\* the second try block of Db2Quakeml.get_event on the event ev; place is
\* the outcome of get_nearest_place, a call into Antelope
SetNearestPlace(ev, place) ==
    IF "origin" \notin DOMAIN ev \/ ev["origin"] = <<>> THEN ev
    ELSE LET orig == ev["origin"][1]
         IN IF orig["longitude"] = None \/ orig["latitude"] = None THEN ev
            ELSE IF place.exc # "" THEN ev
            ELSE LET desc == [text |-> place.val, type |-> "nearest cities"]
                 IN IF "description" \in DOMAIN ev
                    THEN [ev EXCEPT !["description"] = Append(@, desc)]
                    ELSE ("description" :> <<desc>>) @@ ev

\* variant of Db2QuakemlGetEvent that lets a failure of the selection of the
\* preferred identifiers out
Db2QuakemlGetEvent_Propagating(conv, preferred_magtypes, db, orid, f, place, u) ==
    Bind(ExtractOrigin(conv, db, orid, f, u), LAMBDA ev :
        IF ev = None THEN Ran(Raise("TypeError"), <<>>)
        ELSE IF SetPreferredIdsError(The(ev), preferred_magtypes) # ""
        THEN Ran(Raise(SetPreferredIdsError(The(ev), preferred_magtypes)), <<>>)
        ELSE Ran(Return(Some(SetNearestPlace(
                    SetPreferredIds(The(ev), preferred_magtypes), place))), <<>>))

\* Db2Quakeml.get_event(dsn, orid, origin, magnitude, pick=False,
\* focalMechanism, stationMagnitude, anss) of the service whose converter is
\* conv, over the database db that dsn opens: Some(event), or None
Db2QuakemlGetEvent(conv, preferred_magtypes, db, orid, f, place, u) ==
    Bind(ExtractOrigin(conv, db, orid, f, u), LAMBDA ev :
        IF ev = None THEN Ran(Return(None), <<>>)
        ELSE Ran(Return(Some(SetNearestPlace(
                    SetPreferredIds(The(ev), preferred_magtypes), place))), <<>>))

\* get_deleted_event once the try block gave got and with stub the outcome
\* of the handler's map_event: 'finally' stamps the type on the event
DeletedEvent(got, stub) ==
    IF got.exc = "" /\ got.val # None
    THEN Ran(Return(("type" :> "not existing") @@ The(got.val)), got.queries)
    ELSE IF stub.exc = ""
    THEN Ran(Return(("type" :> "not existing") @@ stub.val), got.queries)
    \* the handler raised: 'finally' subscripts ev, which is None when
    \* get_event found no event and unbound when the try block broke off
    \* before the assignment
    ELSE IF got.exc = "" THEN Ran(Raise("TypeError"), got.queries)
    ELSE Ran(Raise("UnboundLocalError"), got.queries)

\* Db2Quakeml.get_deleted_event(dsn, orid, evid, anss); opens tells whether
\* Database.open(dsn) succeeds, db is the database it opens
Db2QuakemlGetDeletedEvent(conv, db, opens, orid, evid, anss) ==
    DeletedEvent(IF opens THEN GetEvent(conv, db, orid, evid, anss)
                 ELSE Ran(Raise("Exception"), <<>>),
                 MapEvent(conv, [evid |-> evid], anss))

-----------------------------------------------------------------------------
(* qmlutil.ichinose.ich2qml: IchinoseToQmlConverter *)

\* _dt2str(dt): rfc3339 of a datetime, None of None; a datetime stands as
\* its seconds since 1970
Dt2Str(dt) == IF dt = None THEN None ELSE Some(rfc3339([datetime |-> The(dt)]))

\* Dict([('creationTime', ...), ('version', vers)])
IchCreationInfo(ichi, vers) ==
    [creationTime |-> Dt2Str(Get(ichi, "creation_time")), version |-> vers]

\* IchinoseToQmlConverter.get_event(anss) of the converter self whose parser
\* gives ichi; utcnow is the clock in seconds, a datetime stands as its
\* seconds since 1970, u is the draw of uuid4
IchinoseGetEvent(self, ichi, anss, utcnow, u) ==
    LET hypo == IF "event_info" \in DOMAIN ichi THEN ichi["event_info"]
                ELSE [k \in {} |-> None]
        evid == Get(ichi, "evid")
        orid == Get(ichi, "orid")
        ustamp == IF Get(ichi, "creation_time") # None
                  THEN The(Get(ichi, "creation_time")) ELSE utcnow
        vers == FmtInt(evid) \o "-" \o FmtInt(orid) \o "-" \o IntStr(ustamp)
        ichiID_rid == "ichinose/" \o vers
        originID_rid == "origin/" \o KeyOrUuid(orid, u)
        eventID_rid == "event/" \o FmtInt(evid)
        origin ==
            ("@publicID" :> Uri(self, ichiID_rid, Some("origin"), None, None))
            @@ ("latitude" :> QuanValue(Get(hypo, "lat")))
            @@ ("longitude" :> QuanValue(Get(hypo, "lon")))
            @@ ("depth" :> QuanValue(Km2m(Get(ichi, "derived_depth"))))
            @@ ("time" :> QuanValue(Dt2Str(Get(hypo, "time"))))
            @@ ("depthType" :> "from moment tensor inversion")
            @@ ("evaluationMode" :> Get(ichi, "mode"))
            @@ ("evaluationStatus" :> Get(ichi, "status"))
            @@ ("creationInfo" :> IchCreationInfo(ichi, vers))
        magnitude ==
            ("@publicID" :> Uri(self, ichiID_rid, Some("mag"), None, None))
            @@ ("mag" :> [value |-> Get(ichi, "mag")])
            @@ ("type" :> Get(ichi, "magtype"))
            @@ ("evaluationMode" :> Get(ichi, "mode"))
            @@ ("evaluationStatus" :> Get(ichi, "status"))
            @@ ("creationInfo" :> IchCreationInfo(ichi, vers))
        moment_tensor ==
            ("@publicID" :> Uri(self, ichiID_rid, Some("mt"), None, None))
            @@ ("derivedOriginID" :> Uri(self, ichiID_rid, Some("origin"), None, None))
            @@ ("scalarMoment" :> [value |-> Get(ichi, "scalar_moment")])
            @@ ("doubleCouple" :> Get(ichi, "double_couple"))
            @@ ("tensor" :> Get(ichi, "tensor"))
            @@ ("category" :> "regional")
            @@ ("dataUsed" :> [waveType |-> "combined",
                               stationCount |-> Get(ichi, "data_used_station_count")])
            @@ ("creationInfo" :> IchCreationInfo(ichi, vers))
        focal_mechanism ==
            ("@publicID" :> Uri(self, ichiID_rid, Some("focalmech"), None, None))
            @@ ("triggeringOriginID" :> Uri(self, originID_rid, None, None, None))
            @@ ("nodalPlanes" :> Get(ichi, "nodal_planes"))
            @@ ("principalAxes" :> Get(ichi, "principal_axes"))
            @@ ("momentTensor" :> moment_tensor)
            @@ ("creationInfo" :> IchCreationInfo(ichi, vers))
            @@ ("evaluationMode" :> Get(ichi, "mode"))
            @@ ("evaluationStatus" :> Get(ichi, "status"))
        event ==
            ("@publicID" :> Uri(self, eventID_rid, None, None, None))
            @@ ("focalMechanism" :> <<focal_mechanism>>)
            @@ ("magnitude" :> <<magnitude>>)
            @@ ("origin" :> <<origin>>)
            @@ ("preferredMagnitudeID" :> magnitude["@publicID"])
            @@ ("preferredFocalMechanismID" :> focal_mechanism["@publicID"])
            @@ ("creationInfo" :> [creationTime |-> Dt2Str(Get(ichi, "creation_time")),
                                   version |-> FmtInt(evid)])
    IN IF ~anss THEN Return(event)
       ELSE IF evid = None THEN Raise("ValueError")   \* "{0:08d}".format(None)
       ELSE Return(AnssParams(self.agency, The(evid)) @@ event)

-----------------------------------------------------------------------------
(* qmlutil.css.qml2css: Counter *)

\* Counter.set(ns, value): the new Counter._id
CounterSet(id, ns, value) == (ns :> value) @@ id

\* variant of CounterNewint that starts every namespace again at 0
CounterNewint_Restart(id, ns) == (ns :> 0) @@ id

\* Counter.newint(ns): the new Counter._id; the call returns its value at ns
CounterNewint(id, ns) ==
    IF ns \in DOMAIN id THEN (ns :> id[ns] + 1) @@ id
    ELSE (ns :> 0) @@ id

-----------------------------------------------------------------------------
(* The inputs the calls are drawn from *)

OptStr(S) == {None} \cup {Some(s) : s \in S}
OptNum(S) == {None} \cup {Some(n) : n \in S}

\* all sequences over S of length at most n
SeqUpTo(S, n) == UNION {[1..k -> S] : k \in 0..n}

DefaultRidFactory == [schema |-> "smi", authority_id |-> "local"]
RidFactories == {DefaultRidFactory,
                 [schema |-> "quakeml", authority_id |-> "org.spam"]}

NoCall == [op |-> "init", arg |-> <<>>, res |-> Return(None)]
\* Counter._id = {}
NoIds == [ns \in {} |-> 0]
NoDb == [event |-> <<>>, origin |-> <<>>, netmag |-> <<>>, stamag |-> <<>>,
         mt |-> <<>>, fplane |-> <<>>, assoc |-> <<>>]

-----------------------------------------------------------------------------
(* SpecRid: calls of one ResourceURIGenerator *)

ResourceIds == OptStr({"foo", "foo#bar"})
LocalIds == OptStr({"", "bar"})
\* the (authority_id, schema) overrides of a call
Overrides == {<<None, None>>, <<Some("org.spam"), Some("quakeml")>>,
              <<None, Some("")>>}

InitRid ==
    /\ rid_factory \in RidFactories
    /\ agency = "XX"
    /\ automatic_authors = <<>>
    /\ etype_map = ETYPE_MAP
    /\ utc_factory = None
    /\ dbptr = NoDb
    /\ queries = <<>>
    /\ prefmags = <<>>
    /\ class_etype_map = ETYPE_MAP
    /\ counter_id = NoIds
    /\ history = <<>>
    /\ op = "init"
    /\ arg = <<>>
    /\ res = Return(None)
    /\ prev = NoCall

CallResourceURI ==
    /\ prev.op = "init"          \* two calls are followed
    /\ \E resource_id \in ResourceIds, local_id \in LocalIds,
          over \in Overrides, u \in UUID :
        /\ op' = "ResourceURI"
        /\ arg' = [resource_id |-> resource_id, local_id |-> local_id,
                   authority_id |-> over[1], schema |-> over[2]]
        /\ res' = Return(ResourceURI(rid_factory, resource_id, local_id,
                                     over[1], over[2], u))
        /\ prev' = [op |-> op, arg |-> arg, res |-> res]
        /\ UNCHANGED <<rid_factory, agency, automatic_authors, etype_map, utc_factory,
                       dbptr, queries, prefmags, class_etype_map,
                       counter_id, history>>

NextRid == CallResourceURI

SpecRid == InitRid /\ [][NextRid]_vars

\* C1: a call with a non-empty resource_id returns exactly
\* schema ":" authority_id "/" resource_id, followed by "#" local_id if and
\* only if a non-empty local_id is given, where a schema or authority_id
\* given in the call replaces the configured one; so the call returns what a
\* generator configured with the overrides returns without overrides.
C1_UriFormat ==
    (op = "ResourceURI" /\ TruthyStr(arg.resource_id)) =>
        LET s == IF TruthyStr(arg.schema) THEN The(arg.schema)
                 ELSE rid_factory.schema
            a == IF TruthyStr(arg.authority_id) THEN The(arg.authority_id)
                 ELSE rid_factory.authority_id
            base == s \o ":" \o a \o "/" \o The(arg.resource_id)
        IN /\ res.exc = ""
           /\ TruthyStr(arg.local_id) => res.val = base \o "#" \o The(arg.local_id)
           /\ ~TruthyStr(arg.local_id) => res.val = base
           /\ \A u \in UUID :
                res.val = ResourceURI([schema |-> s, authority_id |-> a],
                                      arg.resource_id, arg.local_id, None, None, u)

\* C1 witness: the default generator called as make_rid("foo", "bar",
\* schema="quakeml", authority_id="org.spam")
C1_Witness ==
    /\ op = "ResourceURI"
    /\ rid_factory = DefaultRidFactory
    /\ arg = [resource_id |-> Some("foo"), local_id |-> Some("bar"),
              authority_id |-> Some("org.spam"), schema |-> Some("quakeml")]
    /\ res.val = "quakeml:org.spam/foo#bar"

\* C2: for one generator, two calls with the same non-empty resource_id and
\* the same local_id return equal identifiers, and two calls whose non-empty
\* resource_id values differ never return equal identifiers, whatever the
\* local_id of each.
C2_NoCollision ==
    (/\ op = "ResourceURI" /\ prev.op = "ResourceURI"
     /\ TruthyStr(arg.resource_id) /\ TruthyStr(prev.arg.resource_id)
     /\ arg.authority_id = prev.arg.authority_id
     /\ arg.schema = prev.arg.schema) =>
        /\ (arg.resource_id = prev.arg.resource_id /\ arg.local_id = prev.arg.local_id)
                => res = prev.res
        /\ arg.resource_id # prev.arg.resource_id => res.val # prev.res.val

-----------------------------------------------------------------------------
(* SpecMag: calls of find_preferred_mag *)

MaxMags == 3
MaxPrefs == 2

\* the 'type' entry of a magnitude dict: a type code, None, or no entry
MagTypeEntries == {<<"type", Some("mw")>>, <<"type", Some("Mw")>>,
                   <<"type", Some("ml")>>, <<"type", None>>, <<"notype", None>>}

\* the magnitude dict at position i of the list
MagDict(entry, i) ==
    IF entry[1] = "type"
    THEN ("@publicID" :> ("smi:local/netmag/" \o IntStr(i))) @@ ("type" :> entry[2])
    ELSE ("@publicID" :> ("smi:local/netmag/" \o IntStr(i)))

MagLists == {[i \in 1..Len(es) |-> MagDict(es[i], i)] :
                es \in SeqUpTo(MagTypeEntries, MaxMags)}
PrefLists == SeqUpTo({"mw", "ML", "mr"}, MaxPrefs)

InitMag ==
    /\ rid_factory = DefaultRidFactory
    /\ agency = "XX"
    /\ automatic_authors = <<>>
    /\ etype_map = ETYPE_MAP
    /\ utc_factory = None
    /\ dbptr = NoDb
    /\ queries = <<>>
    /\ prefmags = <<>>
    /\ class_etype_map = ETYPE_MAP
    /\ counter_id = NoIds
    /\ history = <<>>
    /\ op = "init"
    /\ arg = <<>>
    /\ res = Return(None)
    /\ prev = NoCall

CallFindPreferredMag ==
    /\ op = "init"
    /\ \E mags \in MagLists, prefmaglist \in PrefLists :
        /\ op' = "find_preferred_mag"
        /\ arg' = [mags |-> mags, prefmaglist |-> prefmaglist]
        /\ res' = FindPreferredMag(mags, prefmaglist)
        /\ UNCHANGED <<rid_factory, agency, automatic_authors, etype_map, utc_factory,
                       dbptr, queries, prev, prefmags, class_etype_map,
                       counter_id, history>>

NextMag == CallFindPreferredMag

SpecMag == InitMag /\ [][NextMag]_vars

\* C4: find_preferred_mag returns the @publicID of the last magnitude, in
\* input order, whose lower-cased type is the first entry of prefmaglist
\* (lower-cased, in list order) that is the type of some magnitude, and null
\* if no entry of prefmaglist is the type of any magnitude.
C4_PreferredMag ==
    (op = "find_preferred_mag" /\ \A i \in 1..Len(arg.mags) : MagType(arg.mags[i]) # None) =>
        LET mags == arg.mags
            prefs == arg.prefmaglist
            OfType(p) == {i \in 1..Len(mags) : Lower(The(MagType(mags[i]))) = Lower(p)}
            hits == {j \in 1..Len(prefs) : OfType(prefs[j]) # {}}
        IN /\ res.exc = ""
           /\ hits = {} => res.val = None
           /\ hits # {} =>
                LET j == CHOOSE x \in hits : \A y \in hits : x <= y
                    k == CHOOSE x \in OfType(prefs[j]) : \A y \in OfType(prefs[j]) : y <= x
                IN res.val = Some(mags[k]["@publicID"])

\* C4 witness: types mw, Mw, ml and priority list mr, mw: the second
\* magnitude, the last of type mw, is preferred
C4_Witness ==
    /\ op = "find_preferred_mag"
    /\ Len(arg.mags) = 3
    /\ \A i \in 1..3 : MagType(arg.mags[i]) = Some(<<"mw", "Mw", "ml">>[i])
    /\ arg.prefmaglist = <<"mr", "mw">>
    /\ res.val = Some("smi:local/netmag/2")

-----------------------------------------------------------------------------
(* Spec: calls of one CSSToQMLConverter, and of anss_params *)

MaxNull == 2

\* the subsets of S of at most n elements
RECURSIVE SubsetsUpTo(_, _)
SubsetsUpTo(S, n) ==
    IF n = 0 THEN {{}}
    ELSE LET P == SubsetsUpTo(S, n - 1)
         IN P \cup {p \cup {x} : p \in P, x \in S}

\* record d with the fields N null (drop FALSE) or missing (drop TRUE)
Nulled(d, N, drop) ==
    IF drop THEN [k \in DOMAIN d \ N |-> d[k]]
    ELSE [k \in DOMAIN d |-> IF k \in N THEN None ELSE d[k]]

\* the records made of a base record by taking away at most MaxNull fields,
\* or all of them
Records(bases) ==
    {Nulled(d, N, drop) : d \in bases,
        N \in SubsetsUpTo(UNION {DOMAIN b : b \in bases}, MaxNull)
                \cup {UNION {DOMAIN b : b \in bases}},
        drop \in BOOLEAN}

\* the etype_map keyword of the second converter
CustomEtypeMap == ("L" :> "earthquake") @@ ("eq" :> "explosion")

\* the keywords the converters are constructed with
ConverterKeywords ==
    {[agency |-> "XX", automatic_authors |-> <<>>, rid_factory |-> DefaultRidFactory],
     [agency |-> "Nn", automatic_authors |-> <<"orbassoc", "orbmag">>,
      rid_factory |-> [schema |-> "quakeml", authority_id |-> "local.test"],
      utc_factory |-> Some("timestamp2isostr"),
      etype_map |-> CustomEtypeMap]}

\* CSSToQMLConverter(**kwargs)
NewConverter(kwargs) ==
    [agency |-> kwargs.agency, automatic_authors |-> kwargs.automatic_authors,
     rid_factory |-> kwargs.rid_factory,
     utc_factory |-> Get(kwargs, "utc_factory"),
     etype_map |-> IF "etype_map" \in DOMAIN kwargs
                   THEN UpdatedEtypeMap(kwargs.etype_map) ELSE ETYPE_MAP]

Converters == {NewConverter(kwargs) : kwargs \in ConverterKeywords}

\* the converter object
Self == [agency |-> agency, automatic_authors |-> automatic_authors,
         rid_factory |-> rid_factory, etype_map |-> etype_map,
         utc_factory |-> utc_factory]

Authors == OptStr({"", "orbassoc", "ORBASSOC", "BRTT:tom", "dbml:orbmag2"})
Agencies == {"XX", "Nn", "nn"}
Evids == {0, 7, 1371545, 12345678, 123456789}

\* a load date of the rows
LDDATE == Some(1451397826)

EventRows == Records({[evid |-> Some(e), lddate |-> LDDATE,
                       prefor |-> Some(p), orid |-> Some(o)] :
                            e \in Evids, p \in {0, 5}, o \in {0, 6}})

Init ==
    /\ \E c \in Converters :
        /\ rid_factory = c.rid_factory
        /\ agency = c.agency
        /\ automatic_authors = c.automatic_authors
        /\ etype_map = c.etype_map
        /\ utc_factory = c.utc_factory
    /\ dbptr = NoDb
    /\ queries = <<>>
    /\ prefmags = <<>>
    /\ class_etype_map = ETYPE_MAP
    /\ counter_id = NoIds
    /\ history = <<>>
    /\ op = "init"
    /\ arg = <<>>
    /\ res = Return(None)
    /\ prev = NoCall

\* what a call leaves alone: the configuration and the database
config == <<rid_factory, agency, automatic_authors, etype_map, utc_factory, dbptr, prev,
            prefmags, class_etype_map, counter_id, history>>

CallGetEventStatus ==
    /\ op = "init"
    /\ \E posted_author \in Authors :
        /\ op' = "get_event_status"
        /\ arg' = [posted_author |-> posted_author]
        /\ res' = Return(GetEventStatus(Self, posted_author))
        /\ UNCHANGED <<config, queries>>

CallAnssParams ==
    /\ op = "init"
    /\ \E agency_id \in Agencies, evid \in Evids :
        /\ op' = "anss_params"
        /\ arg' = [agency_id |-> agency_id, evid |-> evid]
        /\ res' = Return(AnssParams(agency_id, evid))
        /\ UNCHANGED <<config, queries>>

CallMapEvent ==
    /\ op = "init"
    /\ \E db \in EventRows, anss \in BOOLEAN :
        /\ op' = "map_event"
        /\ arg' = [db |-> db, anss |-> anss]
        /\ res' = MapEvent(Self, db, anss)
        /\ UNCHANGED <<config, queries>>

\* the draws of uuid.uuid4() of one call, in call order
Draws(n) == [1..n -> UUID]

\* the draws of the mapper calls on n records, k draws a call
RowDraws(n, k) == [1..n -> Draws(k)]

OriginRows ==
    Records({[orid |-> Some(1371545), lat |-> Some(41), lon |-> Some(-119),
              depth |-> Some(10), time |-> Some(1371), stime |-> Some(1),
              sdepth |-> Some(2), sdobs |-> Some(1), ndef |-> Some(7),
              nass |-> Some(9), smajax |-> Some(a), sminax |-> Some(1),
              strike |-> Some(s), conf |-> Some(c), auth |-> Some("BRTT:tom"),
              etype |-> Some("L"), lddate |-> LDDATE] :
                    a \in {0, 2}, s \in {0, 90}, c \in {0, 1}})

NetmagRows ==
    Records({[orid |-> Some(1371545), magid |-> Some(296149),
              magnitude |-> Some(m), uncertainty |-> Some(1),
              magtype |-> Some("ml"), nsta |-> Some(4), auth |-> Some(a),
              lddate |-> LDDATE] :
                    m \in {0, 3}, a \in {"dbml:tom", "orbmag"}})

MagTypes == {"ml", "mb", "ms"}

OrigmagRows ==
    Records({[orid |-> Some(1371545), auth |-> Some(a), lddate |-> LDDATE,
              ml |-> Some(m), mlid |-> Some(i), mb |-> Some(4), mbid |-> None,
              ms |-> None, msid |-> None] :
                    a \in {"BRTT:tom", "orbmag"}, m \in {0, 3}, i \in {0, 296149}})

StamagRows ==
    Records({[orid |-> Some(1371545), magid |-> Some(296149), sta |-> Some("BMN"),
              magtype |-> Some("ml"), magnitude |-> Some(m),
              uncertainty |-> Some(1), auth |-> Some("dbml:tom"),
              lddate |-> LDDATE] : m \in {0, 3}})

ArrivalRows ==
    Records({("arrival.lddate" :> LDDATE) @@
             [sta |-> Some("BMN"), chan |-> Some("HHZ"), time |-> Some(1371),
              arid |-> Some(442), qual |-> Some(q), fm |-> Some(f),
              auth |-> Some(a), deltim |-> Some(1), fsta |-> Some("BMN"),
              fchan |-> Some("HHZ"), snet |-> Some("NN"), loc |-> Some(""),
              iphase |-> Some("P"), azimuth |-> Some(40), delaz |-> Some(2),
              slow |-> Some(5), delslo |-> Some(1), lddate |-> LDDATE] :
                    q \in {"i", "E"}, f \in {"c.", "-"},
                    a \in {"orbassoc_l", "dbp:tom"}})

AssocRows ==
    Records({[orid |-> Some(1371545), arid |-> Some(442), vmodel |-> Some("iasp91"),
              phase |-> Some("P"), esaz |-> Some(40), delta |-> Some(2),
              timeres |-> Some(1), wgt |-> Some(w), timedef |-> Some(t),
              lddate |-> LDDATE] :
                    w \in {0, 1}, t \in {"d", "n", "x"}})

PlaneFields ==
    [str1 |-> Some(0), dip1 |-> Some(45), rake1 |-> Some(90),
     str2 |-> Some(180), dip2 |-> Some(45), rake2 |-> Some(90),
     taxazm |-> Some(10), taxplg |-> Some(20),
     paxazm |-> Some(30), paxplg |-> Some(40)]

FplaneRows ==
    Records({PlaneFields @@
             [orid |-> Some(1371545), mechid |-> Some(3), mtid |-> Some(8),
              algorithm |-> Some(g), auth |-> Some(a), lddate |-> LDDATE] :
                    g \in {"focmec", "orbassoc"}, a \in {"tom", "orbmag"}})

MtRows ==
    Records({PlaneFields @@
             [orid |-> Some(1371545), mtid |-> Some(8), rstatus |-> Some(r),
              estatus |-> Some("reviewed"), scm |-> Some(s), pdc |-> Some(1),
              tmrr |-> Some(1), tmtt |-> Some(2), tmpp |-> Some(3),
              tmrt |-> Some(4), tmrp |-> Some(5), tmtp |-> Some(6),
              taxlength |-> Some(1), paxlength |-> Some(2),
              naxazm |-> Some(50), naxplg |-> Some(60), naxlength |-> Some(3),
              auth |-> Some("mtinv"), lddate |-> LDDATE] :
                    r \in {"automatic", "reviewed", "final"}, s \in {0, 5}})

CallMapOrigin2Origin ==
    /\ op = "init"
    /\ \E db \in OriginRows, u \in Draws(1) :
        /\ op' = "map_origin2origin"
        /\ arg' = [db |-> db]
        /\ res' = MapOrigin2Origin(Self, db, u)
        /\ UNCHANGED <<config, queries>>

CallMapNetmag2Magnitude ==
    /\ op = "init"
    /\ \E db \in NetmagRows, u \in Draws(2) :
        /\ op' = "map_netmag2magnitude"
        /\ arg' = [db |-> db]
        /\ res' = MapNetmag2Magnitude(Self, db, u)
        /\ UNCHANGED <<config, queries>>

CallMapOrigin2Magnitude ==
    /\ op = "init"
    /\ \E db \in OrigmagRows, mtype \in MagTypes, u \in Draws(2) :
        /\ op' = "map_origin2magnitude"
        /\ arg' = [db |-> db, mtype |-> mtype]
        /\ res' = MapOrigin2Magnitude(Self, db, mtype, u)
        /\ UNCHANGED <<config, queries>>

\* stamag rows of several stations, magnitude types, orids and magids
StamagKeyRows ==
    {[orid |-> Some(o), magid |-> Some(i), sta |-> Some(s), magtype |-> Some(t),
      magnitude |-> Some(3), uncertainty |-> Some(1), auth |-> Some("dbml:tom"),
      lddate |-> LDDATE] :
        o \in {1, 12}, i \in {3, 23}, s \in {"LKVW", "A", "A-B"},
        t \in {"ml", "B-ml"}}

CallMapStamag2StationMagnitude ==
    /\ op = "init"
    /\ \E db \in StamagRows \cup StamagKeyRows, u \in Draws(3) :
        /\ op' = "map_stamag2stationmagnitude"
        /\ arg' = [db |-> db]
        /\ res' = MapStamag2StationMagnitude(Self, db, u)
        /\ UNCHANGED <<config, queries>>

CallMapArrival2Pick ==
    /\ op = "init"
    /\ \E db \in ArrivalRows, u \in Draws(1) :
        /\ op' = "map_arrival2pick"
        /\ arg' = [db |-> db]
        /\ res' = MapArrival2Pick(Self, db, u)
        /\ UNCHANGED <<config, queries>>

CallMapAssoc2Arrival ==
    /\ op = "init"
    /\ \E db \in AssocRows, u \in Draws(4) :
        /\ op' = "map_assoc2arrival"
        /\ arg' = [db |-> db]
        /\ res' = MapAssoc2Arrival(Self, db, u)
        /\ UNCHANGED <<config, queries>>

CallMapFplane2Focalmech ==
    /\ op = "init"
    /\ \E db \in FplaneRows, u \in Draws(2) :
        /\ op' = "map_fplane2focalmech"
        /\ arg' = [db |-> db]
        /\ res' = MapFplane2Focalmech(Self, db, u)
        /\ UNCHANGED <<config, queries>>

CallMapMt2Focalmech ==
    /\ op = "init"
    /\ \E db \in MtRows, u \in Draws(2) :
        /\ op' = "map_mt2focalmech"
        /\ arg' = [db |-> db]
        /\ res' = MapMt2Focalmech(Self, db, u)
        /\ UNCHANGED <<config, queries>>

\* rows of assoc joined with arrival: the arid or the time may be missing
JoinedRows ==
    {[sta |-> Some("BMN"), chan |-> Some("HHZ"), time |-> t, arid |-> a,
      orid |-> Some(1371545), auth |-> Some("dbp:tom"), iphase |-> Some("P"),
      phase |-> Some("P"), vmodel |-> Some("iasp91"), wgt |-> Some(1),
      timedef |-> Some("d"), lddate |-> LDDATE] :
        t \in OptNum({1371}), a \in OptNum({0, 442})}

CallMapAssocArrival2PickArrival ==
    /\ op = "init"
    /\ \E db \in JoinedRows, u \in Draws(5) :
        /\ op' = "map_assocarrival2pickarrival"
        /\ arg' = [db |-> db]
        /\ res' = MapAssocArrival2PickArrival(Self, db, u)
        /\ UNCHANGED <<config, queries>>

MaxRecords == 2

\* rows of the fplane and of the mt table; one fplane row has no mechid
FocalmechRows ==
    {PlaneFields @@
        [orid |-> Some(1371545), mechid |-> mechid, mtid |-> Some(8),
         algorithm |-> Some("focmec"), auth |-> Some("tom"), lddate |-> LDDATE] :
            mechid \in OptNum({3})}
    \cup
    {PlaneFields @@
        [orid |-> Some(1371545), mtid |-> Some(8), rstatus |-> Some("reviewed"),
         estatus |-> Some("reviewed"), auth |-> Some("mtinv"), lddate |-> LDDATE]}

CallConvertFocalmechs ==
    /\ op = "init"
    /\ \E records \in SeqUpTo(FocalmechRows, MaxRecords),
          schema \in {"fplane", "mt", "moment"}, u \in RowDraws(MaxRecords, 2) :
        /\ op' = "convert_focalmechs"
        /\ arg' = [records |-> records, schema |-> schema]
        /\ res' = ConvertFocalmechs(Self, records, schema, u)
        /\ UNCHANGED <<config, queries>>

CallMapMoment2Focalmech ==
    /\ op = "init"
    /\ \E db \in FocalmechRows :
        /\ op' = "map_moment2focalmech"
        /\ arg' = [db |-> db]
        /\ res' = MapMoment2Focalmech(Self, db)
        /\ UNCHANGED <<config, queries>>

Next ==
    \/ CallGetEventStatus
    \/ CallAnssParams
    \/ CallMapEvent
    \/ CallMapOrigin2Origin
    \/ CallMapNetmag2Magnitude
    \/ CallMapOrigin2Magnitude
    \/ CallMapStamag2StationMagnitude
    \/ CallMapArrival2Pick
    \/ CallMapAssoc2Arrival
    \/ CallMapFplane2Focalmech
    \/ CallMapMt2Focalmech
    \/ CallConvertFocalmechs
    \/ CallMapMoment2Focalmech
    \/ CallMapAssocArrival2PickArrival

Spec == Init /\ [][Next]_vars

\* C3: get_event_status(author) is ("automatic", "preliminary") if the author
\* is empty or contains, as a case-sensitive substring, one of the configured
\* automatic authors, and ("manual", "reviewed") otherwise, for every
\* automatic_authors list, the empty list included.
C3_EventStatus ==
    (op = "get_event_status" /\ arg.posted_author # None) =>
        LET auto == \/ ~TruthyStr(arg.posted_author)
                    \/ \E i \in 1..Len(automatic_authors) :
                            Contains(The(arg.posted_author), automatic_authors[i])
        IN res = Return(IF auto THEN <<"automatic", "preliminary">>
                        ELSE <<"manual", "reviewed">>)

\* the canonical form of an event id: at least 8 digits, the id's decimal
\* digits last, zeros before them
IsPadded8(s, n) ==
    LET d == IntStr(n)
    IN /\ Len(s) = (IF Len(d) > 8 THEN Len(d) ELSE 8)
       /\ SubSeq(s, Len(s) - Len(d) + 1, Len(s)) = d
       /\ \A i \in 1..(Len(s) - Len(d)) : SubSeq(s, i, i) = "0"

AnssKeys == {"@catalog:eventid", "@catalog:dataid", "@catalog:eventsource",
             "@catalog:datasource"}

\* C5: anss_params gives eventid = the id zero-padded to 8 digits, dataid =
\* the lower-cased agency followed by the eventid, eventsource = datasource =
\* the lower-cased agency; map_event(db, anss=True) attaches the same four
\* values for the converter's agency and the row's evid.
C5_AnssTagging ==
    /\ op = "anss_params" =>
        /\ res.exc = ""
        /\ DOMAIN res.val = AnssKeys
        /\ IsPadded8(res.val["@catalog:eventid"], arg.evid)
        /\ res.val["@catalog:dataid"]
                = Lower(arg.agency_id) \o res.val["@catalog:eventid"]
        /\ res.val["@catalog:eventsource"] = Lower(arg.agency_id)
        /\ res.val["@catalog:datasource"] = Lower(arg.agency_id)
    /\ (op = "map_event" /\ arg.anss /\ Get(arg.db, "evid") # None) =>
        /\ res.exc = ""
        /\ AnssKeys \subseteq DOMAIN res.val
        /\ [k \in AnssKeys |-> res.val[k]] = AnssParams(agency, The(arg.db.evid))

\* C5 witness: map_event with anss on a row of evid 1371545 under agency "Nn"
C5_Witness ==
    /\ op = "map_event" /\ arg.anss
    /\ agency = "Nn"
    /\ Get(arg.db, "evid") = Some(1371545)
    /\ res.exc = ""
    /\ res.val["@catalog:dataid"] = "nn01371545"

\* the entity mappers of CSSToQMLConverter
Mappers == {"map_origin2origin", "map_netmag2magnitude", "map_origin2magnitude",
            "map_stamag2stationmagnitude", "map_arrival2pick",
            "map_assoc2arrival", "map_assocarrival2pickarrival",
            "map_fplane2focalmech", "map_moment2focalmech", "map_mt2focalmech",
            "map_event"}

\* C6: every entity mapper, on a record in which any subset of the fields is
\* missing or null, returns an entity and raises no exception.
C6_MappersTotal ==
    op \in Mappers => res.exc = ""

\* q is null or a Quantity mapping with a value
Valued(q) == q # None => The(q).value # None

\* every Quantity of a nodal plane, an axis or a tensor has a value
AllValued(r) == \A k \in DOMAIN r : Valued(r[k])

\* every Quantity-valued field of the entity e returned by mapper o is null or
\* has a value
QuantitiesValued(o, e) ==
    IF o = "map_origin2origin"
        THEN \A f \in {"latitude", "longitude", "depth", "time"} : Valued(e[f])
    ELSE IF o \in {"map_netmag2magnitude", "map_origin2magnitude",
                   "map_stamag2stationmagnitude"}
        THEN Valued(e["mag"])
    ELSE IF o = "map_arrival2pick"
        THEN \A f \in {"time", "backazimuth", "horizontalSlowness"} : Valued(e[f])
    ELSE IF o = "map_assocarrival2pickarrival"
        THEN \A f \in {"time", "backazimuth", "horizontalSlowness"} : Valued(e[1][f])
    ELSE IF o = "map_fplane2focalmech"
        THEN /\ AllValued(e["nodalPlanes"].nodalPlane1)
             /\ AllValued(e["nodalPlanes"].nodalPlane2)
             /\ AllValued(e["principalAxes"].tAxis)
             /\ AllValued(e["principalAxes"].pAxis)
    ELSE IF o = "map_mt2focalmech"
        THEN /\ AllValued(e["nodalPlanes"].nodalPlane1)
             /\ AllValued(e["nodalPlanes"].nodalPlane2)
             /\ AllValued(e["principalAxes"].tAxis)
             /\ AllValued(e["principalAxes"].pAxis)
             /\ AllValued(e["principalAxes"].nAxis)
             /\ AllValued(e["momentTensor"].tensor)
             /\ Valued(e["momentTensor"].scalarMoment)
    ELSE TRUE

\* C7: in the entity a mapper returns, no field holds a Quantity mapping
\* whose 'value' is null: a missing source value makes the field itself null.
C7_NoNullQuantity ==
    (op \in Mappers /\ res.exc = "") => QuantitiesValued(op, res.val)

\* C8: map_origin2origin gives the origin an originUncertainty block (the
\* axes in metres, the strike, confidenceLevel = conf*100 exactly when conf
\* is present) and non-null latitude and longitude uncertainties if and only
\* if smajax, sminax and strike are all non-null, whatever their values;
\* otherwise originUncertainty and both uncertainties are absent.
C8_OriginUncertainty ==
    (op = "map_origin2origin" /\ res.exc = "") =>
        LET db == arg.db
            e == res.val
            present == /\ Get(db, "smajax") # None
                       /\ Get(db, "sminax") # None
                       /\ Get(db, "strike") # None
            ou == e["originUncertainty"]
            Unc(f) == IF e[f] = None THEN None ELSE The(e[f]).uncertainty
        IN /\ present <=> ou # None
           /\ present =>
                /\ The(ou).maxHorizontalUncertainty = Some(The(db.smajax) * 1000)
                /\ The(ou).minHorizontalUncertainty = Some(The(db.sminax) * 1000)
                /\ The(ou).azimuthMaxHorizontalUncertainty = db.strike
                /\ ("confidenceLevel" \in DOMAIN The(ou)) <=> (Get(db, "conf") # None)
                /\ Get(db, "conf") # None =>
                        The(ou).confidenceLevel = Some(The(db.conf) * 100)
                /\ Get(db, "lat") # None => Unc("latitude") # None
                /\ Get(db, "lon") # None => Unc("longitude") # None
           /\ ~present => Unc("latitude") = None /\ Unc("longitude") = None

\* C10: map_origin2magnitude(db, mtype) gives the magnitude the @publicID
\* <schema>:<authority>/netmag/<id> when the record has a non-null <mtype>id
\* (the identifier map_netmag2magnitude gives the netmag row of that magid),
\* and <schema>:<authority>/origin/<orid>#<mtype> otherwise.
C10_OrigmagPublicID ==
    (op = "map_origin2magnitude" /\ res.exc = ""
        /\ TruthyNum(Get(arg.db, "orid"))) =>
        LET db == arg.db
            id == Get(db, arg.mtype \o "id")
            base == rid_factory.schema \o ":" \o rid_factory.authority_id \o "/"
        IN IF id # None
           THEN /\ res.val["@publicID"] = base \o "netmag/" \o IntStr(The(id))
                /\ The(id) # 0 =>
                    res.val["@publicID"] =
                        MapNetmag2Magnitude(Self, [magid |-> id], <<"", "">>)
                            .val["@publicID"]
           ELSE res.val["@publicID"] = base \o "origin/" \o IntStr(The(db.orid))
                                        \o "#" \o arg.mtype

\* C13: the evaluationMode of the focal mechanism of map_mt2focalmech is
\* "automatic" for the rstatus "automatic", "manual" for the rstatus "manual"
\* or "reviewed", and absent for any other rstatus; it is never a value
\* outside {"automatic", "manual"}.
C13_MtEvaluationMode ==
    (op = "map_mt2focalmech" /\ res.exc = "") =>
        LET rstatus == Get(arg.db, "rstatus")
            mode == res.val["evaluationMode"]
        IN /\ rstatus = Some("automatic") => mode = Some("automatic")
           /\ rstatus \in {Some("manual"), Some("reviewed")} => mode = Some("manual")
           /\ rstatus \notin {Some("automatic"), Some("manual"), Some("reviewed")}
                => mode = None
           /\ mode \in {None, Some("automatic"), Some("manual")}

\* C14: map_fplane2focalmech gives creationInfo.author algorithm + ":" + auth
\* and the pair (evaluationMode, evaluationStatus) that get_event_status
\* returns for that combined author string, for every algorithm, auth and
\* automatic_authors list.
C14_FplaneStatus ==
    (op = "map_fplane2focalmech" /\ res.exc = "") =>
        LET combined == The(arg.db.algorithm) \o ":" \o The(arg.db.auth)
        IN /\ res.val["creationInfo"].author = Some(combined)
           /\ <<The(res.val["evaluationMode"]), The(res.val["evaluationStatus"])>>
                = GetEventStatus(Self, Some(combined))

\* C15: the evaluationMode of the pick of map_arrival2pick is "automatic" if
\* and only if the auth of the row contains 'orbassoc' and "manual" otherwise
\* (a missing auth included); the evaluationStatus is "preliminary" exactly
\* for the mode "automatic" and "reviewed" exactly for "manual"; the
\* automatic_authors list of the converter makes no difference.
C15_PickMode ==
    (op = "map_arrival2pick" /\ res.exc = "") =>
        LET auth == Get(arg.db, "auth")
            mode == res.val["evaluationMode"]
            status == res.val["evaluationStatus"]
            automatic == auth # None /\ Contains(The(auth), "orbassoc")
        IN /\ mode = (IF automatic THEN Some("automatic") ELSE Some("manual"))
           /\ (status = Some("preliminary")) <=> (mode = Some("automatic"))
           /\ (status = Some("reviewed")) <=> (mode = Some("manual"))
           /\ \A c \in Converters :
                LET other == MapArrival2Pick(
                        [Self EXCEPT !.automatic_authors = c.automatic_authors],
                        arg.db, <<"u">>).val
                IN /\ other["evaluationMode"] = mode
                   /\ other["evaluationStatus"] = status

\* an automatic pick of a converter that has no automatic author
C15_Witness ==
    /\ op = "map_arrival2pick" /\ res.exc = ""
    /\ automatic_authors = <<>>
    /\ Get(arg.db, "auth") = Some("orbassoc_l")
    /\ res.val["evaluationMode"] = Some("automatic")
    /\ res.val["evaluationStatus"] = Some("preliminary")

\* C16: the timeWeight of the arrival of map_assoc2arrival is the wgt of the
\* row whenever wgt is non-null (0 included); for a null wgt it is 1.0 for the
\* timedef 'd', 0.0 for the timedef 'n', and null for any other or a missing
\* timedef.
C16_TimeWeight ==
    (op = "map_assoc2arrival" /\ res.exc = "") =>
        LET wgt == Get(arg.db, "wgt")
            timedef == Get(arg.db, "timedef")
            timeWeight == res.val["timeWeight"]
        IN IF wgt # None THEN timeWeight = wgt
           ELSE IF timedef = Some("d") THEN timeWeight = Some(1)
           ELSE IF timedef = Some("n") THEN timeWeight = Some(0)
           ELSE timeWeight = None

\* a row of weight 0 and timedef 'd' keeps the weight 0
C16_Witness ==
    /\ op = "map_assoc2arrival" /\ res.exc = ""
    /\ Get(arg.db, "wgt") = Some(0)
    /\ Get(arg.db, "timedef") = Some("d")
    /\ res.val["timeWeight"] = Some(0)

\* C17: the evaluationStatus of the magnitude of map_origin2magnitude is
\* "preliminary" if and only if the author of the row starts with 'orb' and
\* "reviewed" otherwise, and a "reviewed" magnitude carries the evaluationMode
\* "manual".
C17_OrigmagStatus ==
    (op = "map_origin2magnitude" /\ res.exc = "") =>
        LET author == The(arg.db.auth)
            status == res.val["evaluationStatus"]
        IN /\ status = (IF StartsWith(author, "orb") THEN Some("preliminary")
                        ELSE Some("reviewed"))
           /\ status = Some("reviewed") =>
                /\ "evaluationMode" \in DOMAIN res.val
                /\ res.val["evaluationMode"] = Some("manual")

\* C20: a focal mechanism mapping of the 'moment' table, asked of
\* map_moment2focalmech or of convert_focalmechs(records, schema='moment'),
\* ends in a NotImplementedError; it never returns a result.
C20_MomentNotImplemented ==
    /\ op = "map_moment2focalmech" => res.exc = "NotImplementedError"
    /\ (op = "convert_focalmechs" /\ arg.schema = "moment")
            => res.exc = "NotImplementedError"

\* the (sta, magtype, orid, magid) of a stamag row
StamagKey(db) == <<Get(db, "sta"), Get(db, "magtype"), Get(db, "orid"),
                   Get(db, "magid")>>

\* C25: two stamag rows whose (sta, magtype, orid, magid) are all non-null
\* and differ in a component get different @publicIDs from
\* map_stamag2stationmagnitude of the same converter.
C25_StamagUnique ==
    (op = "map_stamag2stationmagnitude" /\ arg.db \in StamagKeyRows) =>
        \A other \in StamagKeyRows :
            StamagKey(other) # StamagKey(arg.db) =>
                MapStamag2StationMagnitude(Self, other, <<"", "", "">>)
                        .val["@publicID"] # res.val["@publicID"]

\* C27 as stated: for every joined row given to
\* map_assocarrival2pickarrival, the pickID of the returned arrival is the
\* @publicID of the returned pick.
C27_PickReference ==
    (op = "map_assocarrival2pickarrival" /\ res.exc = "") =>
        res.val[2]["pickID"] = res.val[1]["@publicID"]

\* C27, amended: for every joined row with a non-null, non-zero arid the
\* pickID of the returned arrival is the @publicID of the returned pick,
\* <schema>:<authority>/arrival/<arid>; for a row without such an arid the
\* two identifiers are two separate random tokens.
C27_PickReferenceKeyed ==
    (op = "map_assocarrival2pickarrival" /\ res.exc = "") =>
        LET arid == Get(arg.db, "arid")
            base == rid_factory.schema \o ":" \o rid_factory.authority_id
                    \o "/arrival/"
        IN IF TruthyNum(arid)
           THEN /\ res.val[1]["@publicID"] = base \o IntStr(The(arid))
                /\ res.val[2]["pickID"] = res.val[1]["@publicID"]
           ELSE \E u1, u2 \in UUID :
                    /\ res.val[1]["@publicID"] = base \o u1
                    /\ res.val[2]["pickID"] = base \o u2

\* a pick and an arrival of the arid 442
C27_Witness ==
    /\ op = "map_assocarrival2pickarrival" /\ res.exc = ""
    /\ Get(arg.db, "arid") = Some(442)
    /\ res.val[2]["pickID"] = res.val[1]["@publicID"]
    /\ res.val[2]["@publicID"] # res.val[2]["pickID"]

-----------------------------------------------------------------------------
(* SpecDB: calls of one DatabaseConverter over a database *)

MaxRows == 2

\* every row of the tables holds its keys, so that no mapper call on a row
\* draws a uuid: one sequence of draws stands for those of every call
KeyedRows ==
    [i \in 1..(Len(dbptr.origin) + Len(dbptr.netmag) + Len(dbptr.stamag)
                 + Len(dbptr.mt) + Len(dbptr.fplane) + Len(dbptr.assoc)
                 + Cardinality(MagTypes)) |->
        [j \in 1..6 |-> CHOOSE x \in UUID : TRUE]]

\* the sequences of at most n distinct elements of S
DistinctSeqs(S, n) ==
    {q \in SeqUpTo(S, n) : \A i, j \in 1..Len(q) : q[i] = q[j] => i = j}

Orids == {1, 2}

\* rows of the netmag table: the magid is the key, the load dates differ
NetmagTableRows ==
    {[orid |-> Some(r[1]), magid |-> Some(r[2]), magnitude |-> Some(3),
      uncertainty |-> None, magtype |-> Some(r[3]), nsta |-> Some(4),
      auth |-> Some("dbml:tom"), lddate |-> Some(r[4])] :
        r \in {<<1, 10, "ml", 100>>, <<1, 11, "mb", 200>>, <<2, 12, "ml", 300>>}}

\* rows of the origin table
OriginTableRows ==
    {[orid |-> Some(1), evid |-> Some(7), auth |-> Some("BRTT:tom"),
      lddate |-> LDDATE, ml |-> ml, mlid |-> None, mb |-> mb, mbid |-> None,
      ms |-> None, msid |-> None] : ml \in OptNum({0, 3}), mb \in OptNum({4})}
    \cup {[orid |-> Some(2), evid |-> Some(7), auth |-> Some("orbmag"),
           lddate |-> LDDATE, ml |-> Some(3), mlid |-> None, mb |-> None, mbid |-> None,
           ms |-> Some(5), msid |-> None]}

Databases ==
    {[NoDb EXCEPT !.netmag = n, !.origin = o] :
        n \in DistinctSeqs(NetmagTableRows, MaxRows),
        o \in DistinctSeqs(OriginTableRows, MaxRows)}

InitDB ==
    /\ \E c \in Converters :
        /\ rid_factory = c.rid_factory
        /\ agency = c.agency
        /\ automatic_authors = c.automatic_authors
        /\ etype_map = c.etype_map
        /\ utc_factory = c.utc_factory
    /\ dbptr \in Databases
    /\ queries = <<>>
    /\ prefmags = <<>>
    /\ class_etype_map = ETYPE_MAP
    /\ counter_id = NoIds
    /\ history = <<>>
    /\ op = "init"
    /\ arg = <<>>
    /\ res = Return(None)
    /\ prev = NoCall

CallGetMagnitudes ==
    /\ op = "init"
    /\ \E orid \in Orids, u \in {KeyedRows} :
        /\ op' = "get_magnitudes"
        /\ arg' = [orid |-> orid]
        /\ LET ran == GetMagnitudes(Self, dbptr, orid, u)
           IN res' = Outcome(ran) /\ queries' = ran.queries
        /\ UNCHANGED config

CallGetOrigins ==
    /\ op = "init"
    /\ \E orid \in OptNum({0} \cup Orids), evid \in OptNum({7}), u \in {KeyedRows} :
        /\ op' = "get_origins"
        /\ arg' = [orid |-> orid, evid |-> evid]
        /\ LET ran == GetOrigins(Self, dbptr, orid, evid, u)
           IN res' = Outcome(ran) /\ queries' = ran.queries
        /\ UNCHANGED config

NextDB ==
    \/ CallGetMagnitudes
    \/ CallGetOrigins

SpecDB == InitDB /\ [][NextDB]_vars

\* C9: get_magnitudes(orid) returns exactly the netmag-mapped magnitudes, in
\* row order, when the orid has a netmag row; otherwise it returns exactly one
\* origin-embedded magnitude for each of ml, mb, ms, in that order, whose
\* column on the origin row is non-null, and none for a null column.
C9_MagnitudeFallback ==
    op = "get_magnitudes" =>
        LET netmag_rows == DbSortReverseLddate(DbSubsetOrid(dbptr.netmag, arg.orid))
            origin_rows == DbSubsetOrid(dbptr.origin, arg.orid)
            r == origin_rows[1]
            types == SelectSeq(<<"ml", "mb", "ms">>, LAMBDA t : Get(r, t) # None)
        IN /\ res.exc = ""
           /\ netmag_rows # <<>> =>
                /\ Len(res.val) = Len(netmag_rows)
                /\ \A i \in 1..Len(netmag_rows) :
                        res.val[i] = MapNetmag2Magnitude(Self, netmag_rows[i],
                                                         <<"", "">>).val
           /\ (netmag_rows = <<>> /\ origin_rows # <<>>) =>
                /\ Len(res.val) = Len(types)
                /\ \A i \in 1..Len(types) :
                        res.val[i] = MapOrigin2Magnitude(Self, r, types[i],
                                                         <<"", "">>).val
           /\ (netmag_rows = <<>> /\ origin_rows = <<>>) => res.val = <<>>

\* C18: get_origins(orid, evid) ends in a ValueError if and only if orid and
\* evid are both null, and then no command has been given to the database;
\* with an orid the rows are selected by orid, also when an evid is given.
C18_GetOriginsSelector ==
    op = "get_origins" =>
        LET by_orid == DbSortReverseLddate(DbSubset(dbptr.origin, "orid", arg.orid))
        IN /\ (res.exc = "ValueError") <=> (arg.orid = None /\ arg.evid = None)
           /\ (arg.orid = None /\ arg.evid = None) => queries = <<>>
           /\ arg.orid # None =>
                /\ queries = <<<<"dbopen origin", "dbjoin -o origerr",
                                "dbsubset orid==" \o IntStr(The(arg.orid)),
                                "dbsort -r lddate">>>>
                /\ res = ConvertOrigins(Self, by_orid, KeyedRows)

\* an orid and an evid are given and the evid has more origins than the orid
C18_Witness ==
    /\ op = "get_origins" /\ res.exc = ""
    /\ arg.orid = Some(1) /\ arg.evid = Some(7)
    /\ Len(res.val) = 1
    /\ Len(DbSubset(dbptr.origin, "evid", arg.evid)) = 2

-----------------------------------------------------------------------------
(* SpecExtract: calls of extract_origin over a database *)

MaxStamags == 3

\* rows of the stamag table, two of them of the magid 10
StamagTableRows ==
    {[orid |-> Some(r[1]), magid |-> Some(r[2]), sta |-> Some(r[3]),
      magtype |-> Some("ml"), magnitude |-> Some(3), uncertainty |-> None,
      auth |-> Some("dbml:tom"), lddate |-> LDDATE] :
        r \in {<<1, 10, "BMN">>, <<1, 10, "LKVW">>, <<1, 11, "BMN">>,
               <<2, 12, "BMN">>}}

\* a row of the origin table with an etype
EtypeOriginRow(orid, etype, lddate) ==
    [orid |-> Some(orid), evid |-> Some(7), etype |-> etype,
     auth |-> Some("BRTT:tom"), lddate |-> Some(lddate), ml |-> Some(3),
     mlid |-> None, mb |-> None, mbid |-> None, ms |-> None, msid |-> None]

\* rows of the origin table: the later row of the orid 1 has the etype "ex"
EtypeOriginRows ==
    {EtypeOriginRow(1, etype, 100) : etype \in OptStr({"L", "eq", "zz"})}
    \cup {EtypeOriginRow(1, Some("ex"), 200)}

EventTableRow == [evid |-> Some(7), prefor |-> Some(1), lddate |-> LDDATE]

\* a row of the mt and one of the fplane table, of the orid 1
MtTableRow ==
    [(CHOOSE r \in FocalmechRows : "rstatus" \in DOMAIN r) EXCEPT !.orid = Some(1)]
FplaneTableRow ==
    [(CHOOSE r \in FocalmechRows : "algorithm" \in DOMAIN r /\ r.mechid # None)
        EXCEPT !.orid = Some(1)]

\* rows of assoc joined with arrival, of the orid 1, with the azimuth esaz
\* and the distance delta of the station
AssocTableRow(arid, sta) ==
    [esaz |-> Some(arid - 422), delta |-> Some(arid - 441)]
    @@ [(CHOOSE r \in JoinedRows : r.time # None /\ r.arid # None)
            EXCEPT !.orid = Some(1), !.arid = Some(arid), !.sta = Some(sta)]

\* a row of the fplane table whose mechid, auth and str1 are null
NullFplaneTableRow ==
    [FplaneTableRow EXCEPT !.mechid = None, !.auth = None, !.str1 = None]

\* the netmag table of the rows of the magids ids
NetmagTable(ids) ==
    [i \in 1..Len(ids) |-> CHOOSE r \in NetmagTableRows : r.magid = Some(ids[i])]

\* the databases: the netmag and stamag tables vary over two origins, or the
\* origin and event tables vary beside a moment tensor and a fault plane
ExtractDatabases ==
    {[NoDb EXCEPT !.origin = <<EtypeOriginRow(1, Some("eq"), 100),
                               EtypeOriginRow(2, Some("L"), 300)>>,
                  !.netmag = n, !.stamag = m] :
        n \in {NetmagTable(<<>>), NetmagTable(<<11>>), NetmagTable(<<10, 11, 12>>)},
        m \in DistinctSeqs(StamagTableRows, MaxStamags)}
    \cup
    {[NoDb EXCEPT !.origin = o, !.event = e,
                  !.mt = <<MtTableRow>>, !.fplane = <<p>>,
                  !.assoc = <<AssocTableRow(442, "BMN"), AssocTableRow(443, "LKVW")>>] :
        o \in DistinctSeqs(EtypeOriginRows, MaxRows),
        e \in {<<>>, <<EventTableRow>>},
        p \in {FplaneTableRow, NullFplaneTableRow}}

InitExtract ==
    /\ \E c \in Converters :
        /\ rid_factory = c.rid_factory
        /\ agency = c.agency
        /\ automatic_authors = c.automatic_authors
        /\ etype_map = c.etype_map
        /\ utc_factory = c.utc_factory
    /\ dbptr \in ExtractDatabases
    /\ queries = <<>>
    /\ prefmags = <<>>
    /\ class_etype_map = ETYPE_MAP
    /\ counter_id = NoIds
    /\ history = <<>>
    /\ op = "init"
    /\ arg = <<>>
    /\ res = Return(None)
    /\ prev = NoCall

\* the draws of the queries of extract_origin over keyed rows
KeyedDraws ==
    {[stage \in {"origin", "magnitude", "pick", "mt", "fplane"} |-> KeyedRows]}

\* the keyword flags of extract_origin
Flags == [origin : BOOLEAN, magnitude : BOOLEAN, pick : BOOLEAN,
          focalMechanism : BOOLEAN, stationMagnitude : BOOLEAN, anss : BOOLEAN]

CallExtractOrigin ==
    /\ op = "init"
    /\ \E orid \in Orids, f \in Flags, u \in KeyedDraws :
        /\ op' = "extract_origin"
        /\ arg' = [orid |-> orid, flags |-> f]
        /\ LET ran == ExtractOrigin(Self, dbptr, orid, f, u)
           IN res' = Outcome(ran) /\ queries' = ran.queries
        /\ UNCHANGED config

\* origin_event_type of the origin mapped from a row of the origin table, or
\* of that origin without its 'css:etype'
CallOriginEventType ==
    /\ op = "init"
    /\ \E i \in DOMAIN dbptr.origin, keep \in BOOLEAN, u \in Draws(1) :
        LET mapped == MapOrigin2Origin(Self, dbptr.origin[i], u).val
            origin == IF keep THEN mapped
                      ELSE [k \in DOMAIN mapped \ {"css:etype"} |-> mapped[k]]
        IN /\ op' = "origin_event_type"
           /\ arg' = [row |-> dbptr.origin[i], origin |-> origin]
           /\ res' = Return(OriginEventType(Self, origin))
           /\ UNCHANGED <<config, queries>>

NextExtract ==
    \/ CallExtractOrigin
    \/ CallOriginEventType

SpecExtract == InitExtract /\ [][NextExtract]_vars

\* the etype_map keyword the converter was constructed with, empty if none
EtypeMapKeyword ==
    LET kwargs == CHOOSE k \in ConverterKeywords : k.agency = agency
    IN IF "etype_map" \in DOMAIN kwargs THEN kwargs.etype_map
       ELSE [k \in {} |-> ""]

\* the event type claimed for a row of the origin table
ClaimedEventType(row) ==
    LET etype == Get(row, "etype")
    IN IF etype # None /\ The(etype) \in DOMAIN EtypeMapKeyword
       THEN EtypeMapKeyword[The(etype)]
       ELSE IF etype # None /\ The(etype) \in DOMAIN ETYPE_MAP
       THEN ETYPE_MAP[The(etype)]
       ELSE "not reported"

\* the origin rows of the orid of the call, as get_origins reads them
OriginsOfCall ==
    DbSortReverseLddate(DbSubset(dbptr.origin, "orid", Some(arg.orid)))

\* C11: origin_event_type of the origin mapped from a row is the value of the
\* etype_map keyword of the converter when the etype of the row is one of its
\* keys, else the value of the built-in table when the etype is one of its
\* keys, else "not reported" (also for a missing etype); extract_origin gives
\* the event this type of the first origin.
C11_EventType ==
    /\ op = "origin_event_type" =>
            res.val = (IF "css:etype" \in DOMAIN arg.origin
                       THEN ClaimedEventType(arg.row) ELSE "not reported")
    /\ (op = "extract_origin" /\ arg.flags.origin /\ res.exc = "") =>
            The(res.val)["type"] = ClaimedEventType(OriginsOfCall[1])

\* the keyword of the converter gives "eq" another type than the built-in
\* table, and the event of extract_origin has the type of the keyword
C11_Witness ==
    /\ op = "extract_origin" /\ arg.flags.origin /\ res.exc = ""
    /\ Get(OriginsOfCall[1], "etype") = Some("eq")
    /\ "eq" \in DOMAIN EtypeMapKeyword
    /\ EtypeMapKeyword["eq"] # ETYPE_MAP["eq"]
    /\ The(res.val)["type"] = "explosion"

\* the contributions claimed for magnitude i of the event: those of the stamag
\* rows of the orid whose magid is the magid of the netmag row of the magnitude
ClaimedContributions(i) ==
    LET netmag_rows == DbSortReverseLddate(DbSubsetOrid(dbptr.netmag, arg.orid))
        stamag_rows == DbSubset(dbptr.stamag, "orid", Some(arg.orid))
        linked == IF netmag_rows = <<>> THEN <<>>
                  ELSE SelectSeq(stamag_rows,
                            LAMBDA r : r.magid = netmag_rows[i].magid)
    IN [j \in 1..Len(linked) |->
            [stationMagnitudeID |->
                MapStamag2StationMagnitude(Self, linked[j], <<"", "", "">>)
                    .val["@publicID"]]]

\* the stationMagnitudeContribution list of a magnitude, empty if it has none
ContributionsOf(mag) ==
    IF "stationMagnitudeContribution" \in DOMAIN mag
    THEN mag["stationMagnitudeContribution"] ELSE <<>>

\* the outcome of the call of extract_origin without its stationMagnitude
\* flag
WithoutStationMagnitude ==
    Outcome(ExtractOrigin(Self, dbptr, arg.orid,
                          [arg.flags EXCEPT !.stationMagnitude = FALSE],
                          CHOOSE u \in KeyedDraws : TRUE))

\* C12: extract_origin with magnitude and stationMagnitude, where the event is
\* extracted without the station magnitudes, returns the event, and the
\* stationMagnitudeContribution list of every magnitude of the event holds
\* exactly the contributions of the station magnitudes built from a row whose
\* magid is the key of the magnitude, in row order, and no other.
C12_ContributionLinking ==
    (op = "extract_origin" /\ arg.flags.magnitude /\ arg.flags.stationMagnitude
        /\ WithoutStationMagnitude.exc = "") =>
        /\ res.exc = ""
        /\ LET mags == The(res.val)["magnitude"]
           IN \A i \in 1..Len(mags) :
                ContributionsOf(mags[i]) = ClaimedContributions(i)

\* extract_origin with stationMagnitude runs the query of the stamag table
\* and ends in the AttributeError of the missing convert_magnitudes
C12_StationMagnitudesRaise ==
    (op = "extract_origin" /\ arg.flags.stationMagnitude
        /\ WithoutStationMagnitude.exc = "") =>
        /\ res.exc = "AttributeError"
        /\ queries[Len(queries)][1] = "dbopen stamag"

\* C19: extract_origin(orid, origin=True) over a database without an origin
\* row of the orid ends in the ValueError "No origins for ORID" and returns no
\* event; an event it returns has a non-empty origin list.
C19_NoOrigins ==
    (op = "extract_origin" /\ arg.flags.origin) =>
        /\ OriginsOfCall = <<>> =>
                /\ res.exc = "ValueError"
                /\ "msg" \in DOMAIN res
                /\ res.msg = "No origins for ORID: " \o IntStr(arg.orid)
        /\ res.exc = "" =>
                /\ res.val # None
                /\ The(res.val)["origin"] # <<>>

\* the database has origins, but none of the orid of the call
C19_Witness ==
    /\ op = "extract_origin" /\ arg.flags.origin
    /\ dbptr.origin # <<>> /\ OriginsOfCall = <<>>
    /\ res.exc = "ValueError"

-----------------------------------------------------------------------------
(* SpecCounter: set, newint and newid calls on the one Counter *)

MaxCalls == 4

Namespaces == {"arid", "orid"}
StartValues == {-1, 5}

InitCounter ==
    /\ rid_factory = DefaultRidFactory
    /\ agency = "XX"
    /\ automatic_authors = <<>>
    /\ etype_map = ETYPE_MAP
    /\ utc_factory = None
    /\ dbptr = NoDb
    /\ queries = <<>>
    /\ prefmags = <<>>
    /\ class_etype_map = ETYPE_MAP
    /\ counter_id = NoIds
    /\ history = <<>>
    /\ op = "init"
    /\ arg = <<>>
    /\ res = Return(None)
    /\ prev = NoCall

\* what a call on the Counter leaves alone
converter == <<rid_factory, agency, automatic_authors, etype_map, utc_factory, dbptr,
               queries, prefmags, class_etype_map, prev>>

CallCounterSet ==
    /\ Len(history) < MaxCalls
    /\ \E ns \in Namespaces, value \in StartValues :
        /\ op' = "set"
        /\ arg' = [ns |-> ns, value |-> value]
        /\ res' = Return(None)
        /\ counter_id' = CounterSet(counter_id, ns, value)
        /\ history' = Append(history, [op |-> op', arg |-> arg', res |-> res'])
        /\ UNCHANGED converter

CallCounterNewint ==
    /\ Len(history) < MaxCalls
    /\ \E ns \in Namespaces :
        /\ op' = "newint"
        /\ arg' = [ns |-> ns]
        /\ counter_id' = CounterNewint(counter_id, ns)
        /\ res' = Return(counter_id'[ns])
        /\ history' = Append(history, [op |-> op', arg |-> arg', res |-> res'])
        /\ UNCHANGED converter

\* QMLToCSSConverter.newid(ns): self.id_factory(ns), which is Counter.newint
CallNewid ==
    /\ Len(history) < MaxCalls
    /\ \E ns \in Namespaces :
        /\ op' = "newid"
        /\ arg' = [ns |-> ns]
        /\ counter_id' = CounterNewint(counter_id, ns)
        /\ res' = Return(counter_id'[ns])
        /\ history' = Append(history, [op |-> op', arg |-> arg', res |-> res'])
        /\ UNCHANGED converter

NextCounter ==
    \/ CallCounterSet
    \/ CallCounterNewint
    \/ CallNewid

SpecCounter == InitCounter /\ [][NextCounter]_vars

\* the calls before call i that were made on its namespace
EarlierOn(i) == {j \in 1..(i - 1) : history[j].arg.ns = history[i].arg.ns}

\* the value a call left stored for its namespace
StoredBy(call) == IF call.op = "set" THEN call.arg.value ELSE call.res.val

\* the last of a non-empty set of calls
Last(J) == CHOOSE j \in J : \A k \in J : k <= j

\* C30: over any sequence of set and newint calls, the first newint of a
\* namespace never seen returns 0, every later newint of the namespace returns
\* the value stored before plus 1, a call on one namespace never changes the
\* value of another, and between two set calls on a namespace no two newint
\* calls of it return the same id.
C30_Counter ==
    /\ \A i \in 1..Len(history) :
        history[i].op \in {"newint", "newid"} =>
            IF EarlierOn(i) = {} THEN history[i].res.val = 0
            ELSE history[i].res.val = StoredBy(history[Last(EarlierOn(i))]) + 1
    /\ \A ns \in Namespaces :
        LET on == {j \in 1..Len(history) : history[j].arg.ns = ns}
        IN IF on = {} THEN ns \notin DOMAIN counter_id
           ELSE /\ ns \in DOMAIN counter_id
                /\ counter_id[ns] = StoredBy(history[Last(on)])
    /\ \A i, k \in 1..Len(history) :
        (/\ i < k
         /\ history[i].op # "set" /\ history[k].op # "set"
         /\ history[i].arg.ns = history[k].arg.ns
         /\ \A j \in (i + 1)..(k - 1) :
                ~(history[j].op = "set" /\ history[j].arg.ns = history[i].arg.ns))
            => history[i].res.val # history[k].res.val

\* a namespace is set to 5 and gives 6 and 7, around a first id 0 of another
C30_Witness ==
    /\ Len(history) = 4
    /\ history[1].op = "set" /\ history[1].arg = [ns |-> "arid", value |-> 5]
    /\ history[2].op = "newint" /\ history[2].arg.ns = "arid"
    /\ history[2].res.val = 6
    /\ history[3].op = "newint" /\ history[3].arg.ns = "orid"
    /\ history[3].res.val = 0
    /\ history[4].op = "newid" /\ history[4].arg.ns = "arid"
    /\ history[4].res.val = 7

-----------------------------------------------------------------------------
(* SpecQml: calls of one Db2Quakeml service over the database its dsn opens *)

\* a row of the origin table of the orid 1
QmlOriginRow(lat) ==
    [orid |-> Some(1), evid |-> Some(7), lat |-> lat, lon |-> Some(-119),
     etype |-> Some("eq"), auth |-> Some("BRTT:tom"), lddate |-> Some(100),
     ml |-> Some(3), mlid |-> None, mb |-> None, mbid |-> None,
     ms |-> None, msid |-> None]

\* rows of the netmag table of the orid 1: the magid is the key, the load
\* dates differ
QmlNetmagRows ==
    {[orid |-> Some(1), magid |-> Some(r[1]), magnitude |-> Some(3),
      uncertainty |-> None, magtype |-> r[2], nsta |-> Some(4),
      auth |-> Some("dbml:tom"), lddate |-> Some(r[3])] :
        r \in {<<10, Some("ml"), 100>>, <<11, Some("mb"), 200>>,
               <<13, Some("ml"), 400>>, <<14, Some("ML"), 300>>,
               <<15, None, 500>>}}

QmlNetmagTable(ids) ==
    [i \in 1..Len(ids) |-> CHOOSE r \in QmlNetmagRows : r.magid = Some(ids[i])]

QmlNetmagTables ==
    {QmlNetmagTable(ids) : ids \in {<<>>, <<10>>, <<11>>, <<10, 13>>, <<13, 11, 10>>,
                                    <<11, 10, 13, 14>>, <<10, 15>>}}

\* rows of the mt and of the fplane table of the orid 1
QmlMtRow(mtid, lddate) ==
    [MtTableRow EXCEPT !.mtid = Some(mtid), !.lddate = Some(lddate)]
QmlFplaneRow(mechid, lddate) ==
    [FplaneTableRow EXCEPT !.mechid = Some(mechid), !.lddate = Some(lddate)]

QmlMtTables ==
    {<<>>, <<QmlMtRow(8, 100)>>, <<QmlMtRow(8, 100), QmlMtRow(9, 300)>>,
     <<QmlMtRow(9, 300), QmlMtRow(8, 100)>>}
QmlFplaneTables ==
    {<<>>, <<QmlFplaneRow(3, 200)>>, <<QmlFplaneRow(3, 200), QmlFplaneRow(4, 400)>>}

\* the databases: the netmag table varies beside one origin; or the origin
\* and event tables vary beside one magnitude, one moment tensor and one
\* fault plane; or the mt and fplane tables vary beside one origin
QmlDatabases ==
    {[NoDb EXCEPT !.origin = <<QmlOriginRow(Some(41))>>,
                  !.event = <<EventTableRow>>, !.netmag = n] :
        n \in QmlNetmagTables}
    \cup
    {[NoDb EXCEPT !.origin = o, !.event = e, !.netmag = QmlNetmagTable(<<10>>),
                  !.mt = <<QmlMtRow(8, 100)>>, !.fplane = <<QmlFplaneRow(3, 200)>>,
                  !.assoc = <<AssocTableRow(442, "BMN")>>] :
        o \in {<<>>, <<QmlOriginRow(None)>>, <<QmlOriginRow(Some(41))>>},
        e \in {<<>>, <<EventTableRow>>}}
    \cup
    {[NoDb EXCEPT !.origin = <<QmlOriginRow(Some(41))>>,
                  !.event = <<EventTableRow>>, !.netmag = QmlNetmagTable(<<10>>),
                  !.mt = m, !.fplane = p,
                  !.assoc = <<AssocTableRow(442, "BMN")>>] :
        m \in QmlMtTables, p \in QmlFplaneTables}

\* values of Db2Quakeml.preferred_magtypes
PreferredMagtypes == {<<>>, <<"mw", "ml">>, <<"mb", "ml">>}

\* the outcomes of get_nearest_place
NearestPlaces == {Raise("Exception"), Return("12.3 km NNE of Reno, NV")}

\* Db2Quakeml(): the class attributes, and the converter __init__ builds
InitQml ==
    /\ rid_factory = [schema |-> "quakeml", authority_id |-> "local"]
    /\ agency = "XX"
    /\ automatic_authors = <<>>
    /\ etype_map = UpdatedEtypeMap([k \in {} |-> ""])
    /\ utc_factory = Some("timestamp2isostr")
    /\ dbptr \in QmlDatabases
    /\ queries = <<>>
    /\ prefmags \in PreferredMagtypes
    /\ class_etype_map = ETYPE_MAP
    /\ counter_id = NoIds
    /\ history = <<>>
    /\ op = "init"
    /\ arg = <<>>
    /\ res = Return(None)
    /\ prev = NoCall

\* the values preferred_magtypes is set to: a str, or a list
MagtypesValues == {[str |-> TRUE, mtypes |-> "mb,ml"],
                   [str |-> FALSE, mtypes |-> <<>>]}

\* arg.preferred_magtypes: the list of the service at the call
CallDb2QuakemlGetEvent ==
    /\ op = "init"
    /\ \E orid \in Orids, f \in Flags, place \in NearestPlaces, u \in KeyedDraws :
        /\ op' = "Db2Quakeml.get_event"
        /\ arg' = [orid |-> orid, flags |-> f, place |-> place, u |-> u,
                   preferred_magtypes |-> prefmags]
        /\ LET ran == Db2QuakemlGetEvent(Self, prefmags, dbptr, orid, f, place, u)
           IN res' = Outcome(ran) /\ queries' = ran.queries
        /\ UNCHANGED config

CallDb2QuakemlGetDeletedEvent ==
    /\ op = "init"
    /\ \E opens \in BOOLEAN, orid \in OptNum(Orids), evid \in OptNum({7, 8}),
          anss \in BOOLEAN :
        /\ op' = "Db2Quakeml.get_deleted_event"
        /\ arg' = [opens |-> opens, orid |-> orid, evid |-> evid, anss |-> anss]
        /\ LET ran == Db2QuakemlGetDeletedEvent(Self, dbptr, opens, orid, evid, anss)
           IN res' = Outcome(ran) /\ queries' = ran.queries
        /\ UNCHANGED config

\* svc.preferred_magtypes = mtypes, before or after a call: the assignment
\* changes _prefmags and nothing else
CallPreferredMagtypesSetter ==
    \E v \in MagtypesValues :
        /\ prefmags' = PreferredMagtypesSetter(v.mtypes, v.str)
        /\ UNCHANGED <<rid_factory, agency, automatic_authors, etype_map,
                       utc_factory, dbptr, queries, class_etype_map,
                       counter_id, history, op, arg, res, prev>>

NextQml ==
    \/ CallDb2QuakemlGetEvent
    \/ CallDb2QuakemlGetDeletedEvent
    \/ CallPreferredMagtypesSetter

SpecQml == InitQml /\ [][NextQml]_vars

\* the event extract_origin returned to the call of Db2Quakeml.get_event
Extracted == ExtractOrigin(Self, dbptr, arg.orid, arg.flags, arg.u)

EntityLists == {"origin", "magnitude", "pick", "focalMechanism", "stationMagnitude"}

\* C21: once extract_origin has returned an event, Db2Quakeml.get_event
\* raises nothing, whatever the selection of the preferred identifiers and the
\* lookup of the nearest place do, and returns that event with each of its
\* entity lists as extract_origin left it
C21_PostProcessingCaught ==
    (op = "Db2Quakeml.get_event" /\ Extracted.exc = "" /\ Extracted.val # None)
        => /\ res.exc = ""
           /\ res.val # None
           /\ The(res.val)["@publicID"] = The(Extracted.val)["@publicID"]
           /\ \A k \in EntityLists :
                /\ k \in DOMAIN The(res.val) <=> k \in DOMAIN The(Extracted.val)
                /\ k \in DOMAIN The(res.val)
                     => The(res.val)[k] = The(Extracted.val)[k]

\* a call whose selection failed (no magnitude list) and whose lookup of the
\* nearest place raised, on an event with origins, picks, arrivals, the
\* quality taken from them and focal mechanisms
C21_Witness ==
    /\ op = "Db2Quakeml.get_event" /\ res.exc = "" /\ res.val # None
    /\ arg.flags.origin /\ ~arg.flags.magnitude /\ arg.flags.focalMechanism
    /\ arg.flags.pick
    /\ arg.place.exc # ""
    /\ The(res.val)["origin"] # <<>>
    /\ The(res.val)["pick"] # <<>>
    /\ The(res.val)["origin"][1]["arrival"] # <<>>
    /\ "azimuthalGap" \in DOMAIN The(res.val)["origin"][1]["quality"]
    /\ The(res.val)["focalMechanism"] # <<>>
    /\ "preferredMagnitudeID" \notin DOMAIN The(res.val)

\* C22: every call of Db2Quakeml.get_deleted_event that supplies an orid or
\* an evid raises nothing and returns an event of the type "not existing",
\* which carries the four ANSS attributes when anss is true
C22_DeletedEventStub ==
    (op = "Db2Quakeml.get_deleted_event" /\ (arg.orid # None \/ arg.evid # None))
        => /\ res.exc = ""
           /\ res.val["type"] = "not existing"
           /\ arg.anss => \A a \in {"@catalog:eventid", "@catalog:dataid",
                                    "@catalog:eventsource", "@catalog:datasource"} :
                             a \in DOMAIN res.val

\* the characters of an RFC3339 time in their order
TimeChars == "-.0123456789:TZ"

\* a <= b for two RFC3339 times, as strings
RECURSIVE TimeLeq(_, _)
TimeLeq(a, b) ==
    LET Rank(c) == CHOOSE i \in 1..Len(TimeChars) : SubSeq(TimeChars, i, i) = c
    IN IF a = "" THEN TRUE
       ELSE IF b = "" THEN FALSE
       ELSE IF Head(a) = Head(b) THEN TimeLeq(Tail(a), Tail(b))
       ELSE Rank(Head(a)) < Rank(Head(b))

\* the magnitudes are ordered by their creation time, the latest first
MostRecentFirst(mags) ==
    \A i, j \in 1..Len(mags) :
        i < j => TimeLeq(The(mags[j].creationInfo.creationTime),
                         The(mags[i].creationInfo.creationTime))

\* the magnitudes of mags whose type is the type code pref
OfMagtype(mags, pref) ==
    {i \in 1..Len(mags) : mags[i]["type"] # None
                          /\ Lower(The(mags[i]["type"])) = Lower(pref)}

\* the @publicID of the first magnitude of the first type code of prefs that
\* occurs in mags, None when none occurs
RECURSIVE ClaimedPreferredMag(_, _)
ClaimedPreferredMag(mags, prefs) ==
    IF prefs = <<>> THEN None
    ELSE IF OfMagtype(mags, Head(prefs)) # {}
    THEN LET first == CHOOSE i \in OfMagtype(mags, Head(prefs)) :
                        \A j \in OfMagtype(mags, Head(prefs)) : i <= j
         IN Some(mags[first]["@publicID"])
    ELSE ClaimedPreferredMag(mags, Tail(prefs))

\* C26: when the magnitude list of the event Db2Quakeml.get_event returns is
\* most-recent-first and the selection of the preferred identifiers
\* succeeded, preferredMagnitudeID is the @publicID of the first magnitude of
\* the highest-priority type of preferred_magtypes that occurs in the list,
\* and null when none occurs
C26_PreferredMagnitude ==
    (/\ op = "Db2Quakeml.get_event" /\ res.exc = "" /\ res.val # None
     /\ SetPreferredIdsError(The(Extracted.val), arg.preferred_magtypes) = ""
     /\ MostRecentFirst(The(res.val)["magnitude"]))
        => /\ "preferredMagnitudeID" \in DOMAIN The(res.val)
           /\ The(res.val)["preferredMagnitudeID"]
                = ClaimedPreferredMag(The(res.val)["magnitude"], arg.preferred_magtypes)

\* two magnitudes of the preferred type: the later of them is chosen, though
\* a type of higher priority is missing
C26_Witness ==
    /\ op = "Db2Quakeml.get_event" /\ res.exc = "" /\ res.val # None
    /\ arg.preferred_magtypes = <<"mw", "ml">>
    /\ "preferredMagnitudeID" \in DOMAIN The(res.val)
    /\ Cardinality(OfMagtype(The(res.val)["magnitude"], "ml")) > 1
    /\ The(res.val)["preferredMagnitudeID"]
            = Some(The(res.val)["magnitude"][1]["@publicID"])

\* no type code of a non-empty preferred_magtypes occurs: the identifier is
\* null
C26_WitnessNone ==
    /\ op = "Db2Quakeml.get_event" /\ res.exc = "" /\ res.val # None
    /\ arg.preferred_magtypes # <<>>
    /\ "preferredMagnitudeID" \in DOMAIN The(res.val)
    /\ The(res.val)["magnitude"] # <<>>
    /\ The(res.val)["preferredMagnitudeID"] = None

\* the list is set after a call: the event of that call was selected under
\* the list the service had then
C26_WitnessSetAfter ==
    /\ op = "Db2Quakeml.get_event" /\ res.exc = "" /\ res.val # None
    /\ arg.preferred_magtypes = <<>> /\ prefmags = <<"mb", "ml">>
    /\ "preferredMagnitudeID" \in DOMAIN The(res.val)
    /\ The(res.val)["preferredMagnitudeID"] = None
    /\ OfMagtype(The(res.val)["magnitude"], "mb") # {}

\* the @publicIDs of the elements of the list key of the event ev
PublicIds(ev, key) ==
    IF key \in DOMAIN ev THEN {ev[key][i]["@publicID"] : i \in 1..Len(ev[key])}
    ELSE {}

\* C28: in every event Db2Quakeml.get_event returns, for every combination
\* of the flags, each of preferredOriginID, preferredMagnitudeID and
\* preferredFocalMechanismID is absent, null or the @publicID of an element
\* of the origin, magnitude and focalMechanism list of the event
C28_PreferredIdsResolve ==
    (op = "Db2Quakeml.get_event" /\ res.exc = "" /\ res.val # None)
        => LET ev == The(res.val)
           IN /\ "preferredOriginID" \in DOMAIN ev
                    => ev["preferredOriginID"] \in PublicIds(ev, "origin")
              /\ ("preferredMagnitudeID" \in DOMAIN ev
                        /\ ev["preferredMagnitudeID"] # None)
                    => The(ev["preferredMagnitudeID"]) \in PublicIds(ev, "magnitude")
              /\ "preferredFocalMechanismID" \in DOMAIN ev
                    => ev["preferredFocalMechanismID"]
                            \in PublicIds(ev, "focalMechanism")

\* C29: whenever the event Db2Quakeml.get_event returns has a non-empty
\* focalMechanism list, for every combination of the other flags,
\* preferredFocalMechanismID is set and is the @publicID of the first element
\* of the list
C29_PreferredFocalMechanism ==
    (/\ op = "Db2Quakeml.get_event" /\ res.exc = "" /\ res.val # None
     /\ "focalMechanism" \in DOMAIN The(res.val)
     /\ The(res.val)["focalMechanism"] # <<>>)
        => /\ "preferredFocalMechanismID" \in DOMAIN The(res.val)
           /\ The(res.val)["preferredFocalMechanismID"]
                = The(res.val)["focalMechanism"][1]["@publicID"]

-----------------------------------------------------------------------------
(* SpecSeq: sequences of calls on one CSSToQMLConverter, beside which other
   converters are constructed *)

MaxOps == 3

\* variant of EtypeMapAfterInit in which _etypemap is the class dict itself
EtypeMapAfterInit_NoCopy(class_map, kwargs) ==
    LET heap == 0 :> class_map
        _etypemap == 0
    IN IF "etype_map" \in DOMAIN kwargs
       THEN [heap |-> [heap EXCEPT ![_etypemap] = kwargs.etype_map @@ @],
             instance |-> Some(_etypemap)]
       ELSE [heap |-> heap, instance |-> None]

\* the dicts after the etype_map lines of __init__(**kwargs), by identity: 0
\* is the dict of the class attribute; _etypemap = dict(self.etype_map) is a
\* new dict, 1, that update() changes and self.etype_map is bound to
EtypeMapAfterInit(class_map, kwargs) ==
    LET heap == 0 :> class_map
        copied == heap @@ (1 :> heap[0])
        _etypemap == 1
    IN IF "etype_map" \in DOMAIN kwargs
       THEN [heap |-> [copied EXCEPT ![_etypemap] = kwargs.etype_map @@ @],
             instance |-> Some(_etypemap)]
       ELSE [heap |-> heap, instance |-> None]

\* CSSToQMLConverter.etype_map, the class attribute, after __init__(**kwargs)
ClassEtypeMapAfterInit(class_map, kwargs) ==
    EtypeMapAfterInit(class_map, kwargs).heap[0]

\* the etype_map a converter constructed with kwargs reads: the attribute
\* __init__ set on the instance, else the class attribute
InstanceEtypeMap(class_map, kwargs, instance_map) ==
    IF "etype_map" \in DOMAIN kwargs THEN instance_map ELSE class_map

\* CSSToQMLConverter(**kwargs) while the class table is class_map
NewConverterOver(class_map, kwargs) ==
    LET after == EtypeMapAfterInit(class_map, kwargs)
    IN [agency |-> kwargs.agency, automatic_authors |-> kwargs.automatic_authors,
        rid_factory |-> kwargs.rid_factory,
        utc_factory |-> Get(kwargs, "utc_factory"),
        etype_map |-> IF after.instance = None THEN after.heap[0]
                      ELSE after.heap[The(after.instance)]]

\* the keywords the converter of the calls was constructed with
Constructed == history[1].kwargs

\* the converter of the calls as a call finds it
SelfNow == [Self EXCEPT !.etype_map =
                InstanceEtypeMap(class_etype_map, Constructed, etype_map)]

\* the records the calls are given: of every table one row with its key
\* fields and one without
SeqRecords ==
    [event |-> <<EventTableRow, [EventTableRow EXCEPT !.evid = None]>>,
     origin |-> <<[EtypeOriginRow(1371545, Some("eq"), 100) EXCEPT !.ml = Some(3)],
                  [EtypeOriginRow(1, None, 100) EXCEPT !.orid = None]>>,
     netmag |-> <<[QmlNetmagTable(<<10>>)[1] EXCEPT !.auth = Some("orbmag")],
                  [QmlNetmagTable(<<10>>)[1] EXCEPT !.magid = None]>>,
     stamag |-> <<CHOOSE r \in StamagTableRows : r.magid = Some(12),
                  [(CHOOSE r \in StamagTableRows : r.magid = Some(12))
                        EXCEPT !.orid = None]>>,
     assoc |-> <<[AssocTableRow(442, "BMN") EXCEPT !.vmodel = Some("iasp91")],
                 [AssocTableRow(442, "BMN") EXCEPT !.arid = None]>>,
     fplane |-> <<FplaneTableRow, [FplaneTableRow EXCEPT !.mechid = None]>>,
     mt |-> <<MtTableRow, [MtTableRow EXCEPT !.mtid = None]>>]

InitSeq ==
    /\ \E kwargs \in ConverterKeywords :
        /\ rid_factory = NewConverterOver(ETYPE_MAP, kwargs).rid_factory
        /\ agency = NewConverterOver(ETYPE_MAP, kwargs).agency
        /\ automatic_authors = NewConverterOver(ETYPE_MAP, kwargs).automatic_authors
        /\ etype_map = NewConverterOver(ETYPE_MAP, kwargs).etype_map
        /\ utc_factory = NewConverterOver(ETYPE_MAP, kwargs).utc_factory
        /\ class_etype_map = ClassEtypeMapAfterInit(ETYPE_MAP, kwargs)
        /\ history = <<[op |-> "__init__", kwargs |-> kwargs]>>
    /\ dbptr = SeqRecords
    /\ queries = <<>>
    /\ prefmags = <<>>
    /\ counter_id = NoIds
    /\ op = "init"
    /\ arg = <<>>
    /\ res = Return(None)
    /\ prev = NoCall

\* what a call of a mapper leaves alone: no mapper assigns an attribute of
\* the converter, nor an item of the record it reads through db.get
object == <<rid_factory, agency, automatic_authors, etype_map, utc_factory,
            dbptr, queries, prefmags, counter_id, prev>>

\* the table of the records a mapper is called on
MapperTable ==
    [map_event |-> "event", map_origin2origin |-> "origin",
     map_origin2magnitude |-> "origin", map_netmag2magnitude |-> "netmag",
     map_stamag2stationmagnitude |-> "stamag", map_arrival2pick |-> "assoc",
     map_assoc2arrival |-> "assoc", map_assocarrival2pickarrival |-> "assoc",
     map_fplane2focalmech |-> "fplane", map_mt2focalmech |-> "mt",
     map_moment2focalmech |-> "mt"]

\* the fields of a record of the table that a mapper puts in an identifier
\* in place of a uuid.uuid4() draw
KeyFields ==
    [event |-> {}, origin |-> {"orid"}, netmag |-> {"orid", "magid"},
     stamag |-> {"orid", "magid"}, assoc |-> {"arid", "orid", "vmodel"},
     fplane |-> {"orid", "mechid"}, mt |-> {"orid", "mtid"}]

\* uuid.uuid4() of the n-th call since the converter was constructed: no two
\* calls draw the same value
Uuid4(n) == [j \in 1..5 |-> "uuid-" \o NatStr(n) \o "-" \o NatStr(j)]

\* the call name of a converter on the argument a, with the draws u
Mapped(name, self, a, u) ==
    CASE name = "map_event" -> MapEvent(self, a, FALSE)
      [] name = "map_origin2origin" -> MapOrigin2Origin(self, a, u)
      [] name = "map_origin2magnitude" -> MapOrigin2Magnitude(self, a, "ml", u)
      [] name = "map_netmag2magnitude" -> MapNetmag2Magnitude(self, a, u)
      [] name = "map_stamag2stationmagnitude" ->
            MapStamag2StationMagnitude(self, a, u)
      [] name = "map_arrival2pick" -> MapArrival2Pick(self, a, u)
      [] name = "map_assoc2arrival" -> MapAssoc2Arrival(self, a, u)
      [] name = "map_assocarrival2pickarrival" ->
            MapAssocArrival2PickArrival(self, a, u)
      [] name = "map_fplane2focalmech" -> MapFplane2Focalmech(self, a, u)
      [] name = "map_mt2focalmech" -> MapMt2Focalmech(self, a, u)
      [] name = "map_moment2focalmech" -> MapMoment2Focalmech(self, a)
      [] name = "get_event_type" -> Return(GetEventType(self, a))

\* another converter is constructed
CallNewConverter ==
    /\ Len(history) <= MaxOps
    /\ \E kwargs \in ConverterKeywords :
        /\ op' = "__init__"
        /\ arg' = [kwargs |-> kwargs]
        /\ res' = Return(NewConverterOver(class_etype_map, kwargs))
        /\ class_etype_map' = ClassEtypeMapAfterInit(class_etype_map, kwargs)
        /\ history' = Append(history, [op |-> "__init__", kwargs |-> kwargs])
        /\ UNCHANGED object

\* a mapper is called on a record of its table: it reads the record through
\* db.get only, and its uuid4 draws are those of this call
CallSeqMapper ==
    /\ Len(history) <= MaxOps
    /\ \E name \in DOMAIN MapperTable :
        \E row \in 1..Len(dbptr[MapperTable[name]]) :
            /\ op' = name
            /\ arg' = [table |-> MapperTable[name], row |-> row]
            /\ res' = Mapped(name, SelfNow, dbptr[MapperTable[name]][row],
                             Uuid4(Len(history)))
            /\ history' = Append(history, [op |-> name])
            /\ UNCHANGED <<object, class_etype_map>>

CallSeqGetEventType ==
    /\ Len(history) <= MaxOps
    /\ \E etype \in {"eq", "L", "zz"} :
        /\ op' = "get_event_type"
        /\ arg' = [etype |-> etype]
        /\ res' = Return(GetEventType(SelfNow, etype))
        /\ history' = Append(history, [op |-> "get_event_type"])
        /\ UNCHANGED <<object, class_etype_map>>

NextSeq ==
    \/ CallNewConverter
    \/ CallSeqMapper
    \/ CallSeqGetEventType

SpecSeq == InitSeq /\ [][NextSeq]_vars

\* the argument of the last call: the record as the database holds it after
\* the call, or the etype
LastArgument ==
    IF op = "get_event_type" THEN arg.etype ELSE dbptr[arg.table][arg.row]

\* the key fields the identifiers of the call's result are built from are
\* present in its record
KeyFieldsPresent ==
    op \in DOMAIN MapperTable =>
        \A k \in KeyFields[arg.table] :
            IF k = "vmodel" THEN TruthyStr(Get(LastArgument, k))
            ELSE TruthyNum(Get(LastArgument, k))

MapperOps == DOMAIN MapperTable \cup {"get_event_type"}

\* what a newly constructed converter of the same keywords gives for the
\* argument of the last call, as the first call made on it
FirstCallResult ==
    Mapped(op, NewConverter(Constructed), LastArgument, Uuid4(1))

C24_UnkeyedWitness ==
    /\ op = "map_fplane2focalmech" /\ arg.row = 2 /\ res.exc = ""
    /\ Len(history) > 2
    /\ res # FirstCallResult

-----------------------------------------------------------------------------
(* SpecIch: calls of get_event of one IchinoseToQmlConverter *)

\* the dict of one key, or the empty dict when the text has no line for it
OptKey(key, values) == {[k \in {} |-> None]} \cup {key :> Some(v) : v \in values}

\* what Parser.run gives: the mode and the status always, every other key
\* only when the text has its line; event_info carries the orid of the
\* information line, an int read apart from that of the 'Origin ID' line
IchinoseOutputs ==
    {(((evid @@ orid) @@ (creation_time @@ event_info)) @@ (mw @@ depth))
        @@ [mode |-> Some(ms[1]), status |-> Some(ms[2])] :
        evid \in OptKey("evid", {0, 509589}),
        orid \in OptKey("orid", {0, 1238625}),
        creation_time \in OptKey("creation_time", {1441680946}),
        event_info \in {[k \in {} |-> None]} \cup
            {"event_info" :> [lat |-> Some(38), lon |-> Some(-118),
                              time |-> Some(1441678521), orid |-> Some(o)] :
                o \in {1238624, 1238625}},
        mw \in {[k \in {} |-> None], [mag |-> Some(4), magtype |-> Some("Mw")]},
        depth \in OptKey("derived_depth", {8}),
        ms \in {<<"automatic", "preliminary">>, <<"manual", "reviewed">>}}

\* values of the clock
Clock == {1441680946, 1500000000}

\* IchinoseToQmlConverter(fh, rid_factory=..., agency=...)
InitIch ==
    /\ rid_factory \in RidFactories
    /\ agency \in {"XX", "NN"}
    /\ automatic_authors = <<>>
    /\ etype_map = ETYPE_MAP
    /\ utc_factory = None
    /\ dbptr = NoDb
    /\ queries = <<>>
    /\ prefmags = <<>>
    /\ class_etype_map = ETYPE_MAP
    /\ counter_id = NoIds
    /\ history = <<>>
    /\ op = "init"
    /\ arg = <<>>
    /\ res = Return(None)
    /\ prev = NoCall

CallIchinoseGetEvent ==
    /\ op = "init"
    /\ \E ichi \in IchinoseOutputs, anss \in BOOLEAN, utcnow \in Clock, u \in UUID :
        /\ op' = "IchinoseToQmlConverter.get_event"
        /\ arg' = [ichi |-> ichi, anss |-> anss]
        /\ res' = IchinoseGetEvent(Self, ichi, anss, utcnow, u)
        /\ UNCHANGED <<config, queries>>

NextIch == CallIchinoseGetEvent

SpecIch == InitIch /\ [][NextIch]_vars

\* C23: in the event IchinoseToQmlConverter.get_event builds, the moment
\* tensor's derivedOriginID is the @publicID of the event's origin, its
\* momentMagnitudeID is the @publicID of the event's magnitude, and
\* preferredMagnitudeID and preferredFocalMechanismID are the @publicIDs of
\* the event's magnitude and focal mechanism
C23_IchinoseReferences ==
    (op = "IchinoseToQmlConverter.get_event" /\ res.exc = "")
        => LET event == res.val
               mt == event["focalMechanism"][1]["momentTensor"]
           IN /\ mt["derivedOriginID"] = event["origin"][1]["@publicID"]
              /\ "momentMagnitudeID" \in DOMAIN mt
              /\ mt["momentMagnitudeID"] = event["magnitude"][1]["@publicID"]
              /\ event["preferredMagnitudeID"] = event["magnitude"][1]["@publicID"]
              /\ event["preferredFocalMechanismID"]
                    = event["focalMechanism"][1]["@publicID"]

\* the references the event does hold resolve
IchinoseHeldReferences ==
    (op = "IchinoseToQmlConverter.get_event" /\ res.exc = "")
        => LET event == res.val
               mt == event["focalMechanism"][1]["momentTensor"]
           IN /\ mt["derivedOriginID"] = event["origin"][1]["@publicID"]
              /\ event["preferredMagnitudeID"] = event["magnitude"][1]["@publicID"]
              /\ event["preferredFocalMechanismID"]
                    = event["focalMechanism"][1]["@publicID"]

====
